---- MODULE Spec2Model ----
(***************************************************************************)
(* Smart-IR-System: the document enrichment pipeline (GeoExtractor,        *)
(* TemporalExtractor, DocumentProcessor) as a state machine.               *)
(*                                                                         *)
(* Strings are sequences of one-character strings, so that lower(),        *)
(* strip(), split(), the "in" substring test and the regular expressions   *)
(* of the source are computed and not assumed.  Coordinates are integers   *)
(* in units of 1e-4 degree.  Python's None is a record of the same shape   *)
(* as the value it stands in for, with found/present = FALSE.              *)
(***************************************************************************)
EXTENDS Integers, Sequences, FiniteSets, TLC

VARIABLES
    geocode_cache,  \* GeoExtractor.geocode_cache: search query -> coords
    geocoder_db,    \* what the Nominatim service has answered so far, per query
    geo_seen,       \* (name, context) -> result of the latest geocode_location call
    geo_last,       \* the most recent geocode_location call and what it did
    geo_calls,      \* number of geocode_location calls made so far
    authors_in,     \* the authors_data handed to _parse_authors
    authors_out,    \* what _parse_authors returned for it
    embedding_model, \* EmbeddingHelper._model: TRUE when the model is loaded
    doc_last,       \* the process_document call made and what it returned
    bulk_last,      \* the bulk indexing call made and what it did
    places_in,      \* the text handed to extract_georeferences
    places_out,     \* what extract_georeferences returned for it
    temporal_in,    \* the text handed to extract_temporal_expressions
    temporal_out,   \* what extract_temporal_expressions returned for it
    search_last,    \* the QueryEngine.search call made and what it did
    route_last,     \* the HTTP request handled by the Flask application and its response
    helper,         \* EmbeddingHelper's class attributes and the threads constructing it
    geocoded_last,  \* the extract_and_geocode call made and what it returned
    shared          \* the GeoExtractor instances of a process and the threads geocoding on them

geo_vars == <<geocode_cache, geocoder_db, geo_seen, geo_last, geo_calls>>

authors_vars == <<authors_in, authors_out>>

doc_vars == <<embedding_model, doc_last>>

extract_vars == <<places_in, places_out, temporal_in, temporal_out>>

vars == <<geocode_cache, geocoder_db, geo_seen, geo_last, geo_calls,
          authors_in, authors_out, embedding_model, doc_last, bulk_last,
          places_in, places_out, temporal_in, temporal_out, search_last,
          route_last, helper, geocoded_last, shared>>

service_vars == <<route_last, helper, geocoded_last, shared>>

-----------------------------------------------------------------------------
(* Bounds of the model *)

MaxGeoCalls == 3

MaxAuthorLen == 4

MaxBatch == 3

MaxFiles == 2

MaxEnts == 3

MaxThreads == 2

MaxNew == 2

-----------------------------------------------------------------------------
(* Python str operations *)

UpperChars == <<"A","B","C","D","E","F","G","H","I","J","K","L","M",
                "N","O","P","Q","R","S","T","U","V","W","X","Y","Z">>
LowerChars == <<"a","b","c","d","e","f","g","h","i","j","k","l","m",
                "n","o","p","q","r","s","t","u","v","w","x","y","z">>

LowerChar(c) ==
    IF \E i \in 1..Len(UpperChars) : UpperChars[i] = c
    THEN LowerChars[CHOOSE i \in 1..Len(UpperChars) : UpperChars[i] = c]
    ELSE c

\* str.lower()
Lower(s) == [i \in 1..Len(s) |-> LowerChar(s[i])]

Whitespace == {" ", "\t", "\n"}

RECURSIVE LStrip(_)
LStrip(s) ==
    IF s # <<>> /\ Head(s) \in Whitespace THEN LStrip(Tail(s)) ELSE s

RECURSIVE RStrip(_)
RStrip(s) ==
    IF s # <<>> /\ s[Len(s)] \in Whitespace
    THEN RStrip(SubSeq(s, 1, Len(s) - 1))
    ELSE s

\* str.strip()
Strip(s) == RStrip(LStrip(s))

\* a in b, for strings
IsSubstring(a, b) ==
    \E i \in 0..(Len(b) - Len(a)) : SubSeq(b, i + 1, i + Len(a)) = a

\* truthiness of a str, list, tuple or dict
Truthy(s) == Len(s) > 0

-----------------------------------------------------------------------------
(* GeoExtractor.geocode_location *)

Abbreviations == <<
    [abbr |-> <<"u","s","a">>,
     full |-> <<"U","n","i","t","e","d"," ","S","t","a","t","e","s">>],
    [abbr |-> <<"u","k">>,
     full |-> <<"U","n","i","t","e","d"," ","K","i","n","g","d","o","m">>],
    [abbr |-> <<"w","e","s","t","-","g","e","r","m","a","n","y">>,
     full |-> <<"G","e","r","m","a","n","y">>],
    [abbr |-> <<"u","s","s","r">>,
     full |-> <<"R","u","s","s","i","a">>],
    [abbr |-> <<"u",".","a",".","e">>,
     full |-> <<"U","n","i","t","e","d"," ","A","r","a","b"," ",
                "E","m","i","r","a","t","e","s">>] >>

\* lines 90-92: the name after the abbreviation table
ExpandAbbreviation(location_name) ==
    LET clean_name == Strip(Lower(location_name))
        hits == {i \in 1..Len(Abbreviations) : Abbreviations[i].abbr = clean_name}
    IN  IF hits # {} THEN Abbreviations[CHOOSE i \in hits : TRUE].full
        ELSE location_name

NoContext == <<>>

\* line 95: the search query, with the context when it adds something
SearchQuery(location_name, context) ==
    IF Truthy(context) /\ ~IsSubstring(Lower(context), Lower(location_name))
    THEN location_name \o <<",", " ">> \o context
    ELSE location_name

FallbackCoords == <<
    [place |-> <<"N","e","w"," ","Y","o","r","k">>, coords |-> <<407128, -740060>>],
    [place |-> <<"L","o","n","d","o","n">>, coords |-> <<515074, -1278>>],
    [place |-> <<"P","a","r","i","s">>, coords |-> <<488566, 23522>>],
    [place |-> <<"T","o","k","y","o">>, coords |-> <<356762, 1396503>>],
    [place |-> <<"B","e","r","l","i","n">>, coords |-> <<525200, 134050>>],
    [place |-> <<"R","o","m","e">>, coords |-> <<419028, 124964>>],
    [place |-> <<"M","a","d","r","i","d">>, coords |-> <<404168, -37038>>],
    [place |-> <<"B","e","i","j","i","n","g">>, coords |-> <<399042, 1164074>>],
    [place |-> <<"M","o","s","c","o","w">>, coords |-> <<557558, 376173>>],
    [place |-> <<"S","y","d","n","e","y">>, coords |-> <<-338688, 1512093>>],
    [place |-> <<"B","o","s","t","o","n">>, coords |-> <<423601, -710589>>],
    [place |-> <<"S","i","n","g","a","p","o","r","e">>, coords |-> <<13521, 1038198>>],
    [place |-> <<"Z","u","r","i","c","h">>, coords |-> <<473769, 85417>>],
    [place |-> <<"C","a","m","b","r","i","d","g","e">>, coords |-> <<522053, 1218>>] >>

\* lines 148-149: the table entries whose place is in the name, ignoring case
FallbackMatches(location_name) ==
    {i \in 1..Len(FallbackCoords) :
        IsSubstring(Lower(FallbackCoords[i].place), Lower(location_name))}

\* the first matching entry, in the order of the dict
FirstFallback(location_name) ==
    CHOOSE i \in FallbackMatches(location_name) :
        \A j \in FallbackMatches(location_name) : i <= j

\* The value geocode_location returns: a dict, or None (found = FALSE).
NoLocation ==
    [found |-> FALSE, name |-> <<>>, lat |-> 0, lon |-> 0, formatted_address |-> <<>>]

Located(name, coords, address) ==
    [found |-> TRUE, name |-> name, lat |-> coords[1], lon |-> coords[2],
     formatted_address |-> address]

\* What one geocoder.geocode(query, timeout=10) call does: it returns a
\* location, returns None, or raises.
FailureKinds == {"timeout", "service_error", "error"}

GeoCoords == {<<488566, 23522>>}

\* location.address: Nominatim's display name, which may be the query itself
DisplayName(query, full) ==
    IF full THEN query \o <<",", " ", "E", "a", "r", "t", "h">> ELSE query

Outcomes ==
    [kind : {"none"} \cup FailureKinds, coords : {<<0, 0>>}, full : {FALSE}]
    \cup [kind : {"found"}, coords : GeoCoords, full : BOOLEAN]

Raises(outcome) == outcome.kind \in FailureKinds

\* lines 97-165.  cache: the geocode_cache before the call; oracle: what the
\* geocoder answers to each query during this call.  The result holds the
\* returned value, the cache after the call and the queries sent out.
GeocodeResolved(cache, location_name, search_query, context, fallback, oracle) ==
    IF search_query \in DOMAIN cache
    THEN \* lines 98-107
         [result |-> IF Truthy(cache[search_query])
                     THEN Located(location_name, cache[search_query], search_query)
                     ELSE NoLocation,
          cache |-> cache, ext |-> <<>>, hit |-> TRUE, fallback |-> FALSE]
    ELSE IF Raises(oracle[search_query])
    THEN \* lines 160-165, raised by the call of line 112
         [result |-> NoLocation, cache |-> cache, ext |-> <<search_query>>,
          hit |-> FALSE, fallback |-> FALSE]
    ELSE IF oracle[search_query].kind = "found"
    THEN \* lines 120-128, found at line 112
         [result |-> Located(location_name, oracle[search_query].coords,
                             DisplayName(search_query, oracle[search_query].full)),
          cache |-> (search_query :> oracle[search_query].coords) @@ cache,
          ext |-> <<search_query>>, hit |-> FALSE, fallback |-> FALSE]
    ELSE IF Truthy(context) /\ Raises(oracle[location_name])
    THEN \* lines 160-165, raised by the retry of line 117
         [result |-> NoLocation, cache |-> cache,
          ext |-> <<search_query, location_name>>,
          hit |-> FALSE, fallback |-> FALSE]
    ELSE IF Truthy(context) /\ oracle[location_name].kind = "found"
    THEN \* lines 115-128, found by the retry; the cache key is the bare name
         [result |-> Located(location_name, oracle[location_name].coords,
                             DisplayName(location_name, oracle[location_name].full)),
          cache |-> (location_name :> oracle[location_name].coords) @@ cache,
          ext |-> <<search_query, location_name>>,
          hit |-> FALSE, fallback |-> FALSE]
    ELSE IF fallback # 0
    THEN \* lines 148-156; after a retry the cache key is the bare name (line 118)
         [result |-> Located(location_name, FallbackCoords[fallback].coords,
                             location_name),
          cache |-> ((IF Truthy(context) THEN location_name ELSE search_query)
                        :> FallbackCoords[fallback].coords) @@ cache,
          ext |-> IF Truthy(context) THEN <<search_query, location_name>>
                  ELSE <<search_query>>,
          hit |-> FALSE, fallback |-> TRUE]
    ELSE \* line 158
         [result |-> NoLocation, cache |-> cache,
          ext |-> IF Truthy(context) THEN <<search_query, location_name>>
                  ELSE <<search_query>>,
          hit |-> FALSE, fallback |-> FALSE]

-----------------------------------------------------------------------------
(* The place names and contexts of the model, with the string functions of  *)
(* geocode_location tabulated over them.                                    *)

GeoNames == { <<"E","a","s","t"," ","L","o","n","d","o","n">>,
              <<"L","o","n","d","o","n">>,
              <<" ","U","K">>,
              <<"O","z">> }

GeoContexts == { NoContext, <<"L","o","n","d","o","n">> }

ExpandedName == [n \in GeoNames |-> ExpandAbbreviation(n)]

QueryOf == [n \in GeoNames, c \in GeoContexts |-> SearchQuery(ExpandedName[n], c)]

FallbackOf ==
    [n \in GeoNames |->
        IF FallbackMatches(ExpandedName[n]) = {} THEN 0
        ELSE FirstFallback(ExpandedName[n])]

\* geocode_location(location_name, context), lines 70-165
GeocodeLocation(cache, raw_name, context, oracle) ==
    GeocodeResolved(cache, ExpandedName[raw_name], QueryOf[raw_name, context],
                    context, FallbackOf[raw_name], oracle)

-----
(* The geocoder service: deterministic per query, apart from failures *)

GeoQueries ==
    {QueryOf[n, c] : n \in GeoNames, c \in GeoContexts}
    \cup {ExpandedName[n] : n \in GeoNames}

Unasked == [kind |-> "unasked", coords |-> <<0, 0>>, full |-> FALSE]

\* an answer agrees with what the service said before for the same query
Consistent(db, query, outcome) ==
    Raises(outcome) \/ db[query] = Unasked \/ db[query] = outcome

\* the queries a call may send out
QueriesOf(raw_name, context) == {QueryOf[raw_name, context], ExpandedName[raw_name]}

RECURSIVE Record(_, _, _)
Record(db, ext, oracle) ==
    IF ext = <<>> THEN db
    ELSE LET q == Head(ext) IN
         Record(IF Raises(oracle[q]) THEN db ELSE [db EXCEPT ![q] = oracle[q]],
                Tail(ext), oracle)

-----------------------------------------------------------------------------
(* Geocoding requests on one GeoExtractor *)

NoCall ==
    [name |-> <<>>, context |-> <<>>, result |-> NoLocation, ext |-> <<>>,
     hit |-> FALSE, fallback |-> FALSE, repeat |-> FALSE, previous |-> NoLocation,
     raised |-> "", cache_before |-> <<>>]

GeoInit ==
    /\ geocode_cache = <<>>
    /\ geocoder_db = [q \in GeoQueries |-> Unasked]
    /\ geo_seen = <<>>
    /\ geo_last = NoCall
    /\ geo_calls = 0

Geocode(name, context) ==
    /\ geo_calls < MaxGeoCalls
    /\ \E oracle \in [QueriesOf(name, context) -> Outcomes] :
        /\ \A q \in QueriesOf(name, context) : Consistent(geocoder_db, q, oracle[q])
        /\ \E r \in {GeocodeLocation(geocode_cache, name, context, oracle)},
              key \in {<<name, context>>},
              repeat \in {(DOMAIN geo_seen) \cap {<<name, context>>} # {}} :
               /\ geocode_cache' = r.cache
               /\ geocoder_db' = Record(geocoder_db, r.ext, oracle)
               /\ geo_seen' = (key :> r.result) @@ geo_seen
               /\ geo_last' = [name |-> name, context |-> context,
                               result |-> r.result, ext |-> r.ext, hit |-> r.hit,
                               fallback |-> r.fallback, repeat |-> repeat,
                               previous |-> IF repeat THEN geo_seen[key] ELSE NoLocation,
                               raised |-> IF r.ext # <<>> /\ Raises(oracle[r.ext[Len(r.ext)]])
                                          THEN oracle[r.ext[Len(r.ext)]].kind
                                          ELSE "",
                               cache_before |-> geocode_cache]
    /\ geo_calls' = geo_calls + 1
    /\ UNCHANGED <<service_vars, authors_vars, doc_vars, bulk_last,
                 extract_vars, search_last>>

GeoNext == \E name \in GeoNames, context \in GeoContexts : Geocode(name, context)

-----------------------------------------------------------------------------
(* DocumentProcessor._parse_authors *)

\* the end of the match of <.+?> that starts at i, or 0: "." is any character
\* but a newline, "+?" takes at least one and as few as possible
RECURSIVE CloseFrom(_, _)
CloseFrom(s, j) ==
    IF j > Len(s) THEN 0
    ELSE IF s[j] = ">" THEN j
    ELSE IF s[j] = "\n" THEN 0
    ELSE CloseFrom(s, j + 1)

BracketEnd(s, i) ==
    IF i + 1 <= Len(s) /\ s[i] = "<" /\ s[i + 1] # "\n"
    THEN CloseFrom(s, i + 2)
    ELSE 0

\* re.search: the leftmost position at or after i where <.+?> matches, or 0
RECURSIVE FirstBracket(_, _)
FirstBracket(s, i) ==
    IF i > Len(s) THEN 0
    ELSE IF BracketEnd(s, i) # 0 THEN i
    ELSE FirstBracket(s, i + 1)

\* lines 108-109
EmailOf(author) ==
    IF FirstBracket(author, 1) = 0 THEN <<>>
    ELSE SubSeq(author, FirstBracket(author, 1) + 1,
                BracketEnd(author, FirstBracket(author, 1)) - 1)

\* re.sub(r'<.+?>', '', author): every match removed, left to right
RECURSIVE RemoveBrackets(_, _)
RemoveBrackets(s, i) ==
    IF i > Len(s) THEN <<>>
    ELSE IF BracketEnd(s, i) # 0 THEN RemoveBrackets(s, BracketEnd(s, i) + 1)
    ELSE <<s[i]>> \o RemoveBrackets(s, i + 1)

\* str.split(): the maximal runs of non-whitespace characters
RECURSIVE SplitFrom(_, _, _)
SplitFrom(s, i, word) ==
    IF i > Len(s) THEN (IF word = <<>> THEN <<>> ELSE <<word>>)
    ELSE IF s[i] \in Whitespace
    THEN (IF word = <<>> THEN <<>> ELSE <<word>>) \o SplitFrom(s, i + 1, <<>>)
    ELSE SplitFrom(s, i + 1, Append(word, s[i]))

Split(s) == SplitFrom(s, 1, <<>>)

\* " ".join(parts)
RECURSIVE JoinSpace(_)
JoinSpace(parts) ==
    IF parts = <<>> THEN <<>>
    ELSE IF Len(parts) = 1 THEN parts[1]
    ELSE parts[1] \o <<" ">> \o JoinSpace(Tail(parts))

\* a slip in line 115: the second token alone, not the remaining tokens joined
ParseAuthorStringSecondToken(author) ==
    LET name_parts == Split(Strip(RemoveBrackets(author, 1))) IN
    [first_name |-> IF Len(name_parts) > 0 THEN name_parts[1] ELSE <<>>,
     last_name |-> IF Len(name_parts) > 1 THEN name_parts[2] ELSE <<>>,
     email |-> EmailOf(author)]

\* lines 106-121: one author given as a string
ParseAuthorString(author) ==
    LET name_parts == Split(Strip(RemoveBrackets(author, 1))) IN
    [first_name |-> IF Len(name_parts) > 0 THEN name_parts[1] ELSE <<>>,
     last_name |-> IF Len(name_parts) > 1 THEN JoinSpace(Tail(name_parts)) ELSE <<>>,
     email |-> EmailOf(author)]

\* An author of the input: a str, a dict (with the keys it has) or something
\* else, such as None.
AuthorStr(text) ==
    [kind |-> "str", text |-> text, keys |-> {},
     first_name |-> <<>>, last_name |-> <<>>, email |-> <<>>]

AuthorDict(keys, first_name, last_name, email) ==
    [kind |-> "dict", text |-> <<>>, keys |-> keys,
     first_name |-> first_name, last_name |-> last_name, email |-> email]

AuthorOther ==
    [kind |-> "other", text |-> <<>>, keys |-> {},
     first_name |-> <<>>, last_name |-> <<>>, email |-> <<>>]

\* lines 99-105: author.get(key, "")
DictGet(author, key, value) == IF key \in author.keys THEN value ELSE <<>>

\* lines 98-121: what one element of the list adds to the result
ParseAuthor(author) ==
    IF author.kind = "dict"
    THEN << [first_name |-> DictGet(author, "first_name", author.first_name),
             last_name |-> DictGet(author, "last_name", author.last_name),
             email |-> DictGet(author, "email", author.email)] >>
    ELSE IF author.kind = "str"
    THEN << ParseAuthorString(author.text) >>
    ELSE << >>

RECURSIVE ParseAuthorList(_)
ParseAuthorList(items) ==
    IF items = <<>> THEN <<>>
    ELSE ParseAuthor(Head(items)) \o ParseAuthorList(Tail(items))

\* authors_data: absent or None (kind "none"), a str, or a list
NoAuthors == [kind |-> "none", text |-> <<>>, items |-> <<>>]
AuthorsStr(text) == [kind |-> "str", text |-> text, items |-> <<>>]
AuthorsList(items) == [kind |-> "list", text |-> <<>>, items |-> items]

\* lines 88-123
ParseAuthors(authors_data) ==
    IF authors_data.kind = "none" THEN <<>>
    ELSE IF authors_data.kind = "str"
    THEN IF ~Truthy(authors_data.text) THEN <<>>
         ELSE ParseAuthorList(<<AuthorStr(authors_data.text)>>)
    ELSE IF ~Truthy(authors_data.items) THEN <<>>
    ELSE ParseAuthorList(authors_data.items)

-----------------------------------------------------------------------------
(* Author normalization over bounded inputs *)

AuthorChars == {"a", "b", " ", "<", ">"}

AuthorStrings == UNION {[1..n -> AuthorChars] : n \in 0..MaxAuthorLen}

\* "First Last <email>", as the callers write it
FormatAuthor(tokens, email) ==
    IF email = <<>> THEN JoinSpace(tokens)
    ELSE JoinSpace(tokens) \o <<" ", "<">> \o email \o <<">">>

NameTokens == { <<"J","a","n","e">>, <<"S","m","i","t","h">>, <<"v","a","n">> }

TokenLists == UNION {[1..n -> NameTokens] : n \in 1..3}

Emails == { <<>>, <<"j","@","x",".","c","o","m">> }

FormattedAuthors == {FormatAuthor(t, e) : t \in TokenLists, e \in Emails}

SampleItems ==
    { AuthorStr(<<"M","a","d","o","n","n","a">>),
      AuthorStr(FormatAuthor(<<<<"J","a","n","e">>, <<"S","m","i","t","h">>>>,
                             <<"j","@","x",".","c","o","m">>)),
      AuthorStr(<<"<","a",">">>),
      AuthorDict({"first_name", "last_name", "email"}, <<"A","l">>, <<"B">>, <<"c">>),
      AuthorDict({"first_name"}, <<"A","l">>, <<>>, <<>>) }

AuthorInputs ==
    {NoAuthors, AuthorsList(<<>>)}
    \cup {AuthorsStr(t) : t \in AuthorStrings \cup FormattedAuthors}
    \cup {AuthorsList(<<AuthorStr(t)>>) : t \in FormattedAuthors}
    \cup {AuthorsList(l) : l \in [1..2 -> SampleItems] \cup [1..3 -> SampleItems]}

NotParsed == [done |-> FALSE, authors |-> <<>>]

AuthorsIdle == authors_in = NoAuthors /\ authors_out = NotParsed

AuthorsInit == authors_in \in AuthorInputs /\ authors_out = NotParsed

ParseAuthorsCall ==
    /\ ~authors_out.done
    /\ authors_out' = [done |-> TRUE, authors |-> ParseAuthors(authors_in)]
    /\ UNCHANGED <<service_vars, authors_in, geo_vars, doc_vars, bulk_last,
                 extract_vars, search_last>>

AuthorsNext == ParseAuthorsCall

-----------------------------------------------------------------------------
(* DocumentProcessor._clean_html *)

TagStart ==
    {LowerChars[i] : i \in 1..Len(LowerChars)}
    \cup {UpperChars[i] : i \in 1..Len(UpperChars)} \cup {"/", "!"}

\* the position of the ">" that closes the tag opened at i, or 0
RECURSIVE TagClose(_, _)
TagClose(s, j) ==
    IF j > Len(s) THEN 0
    ELSE IF s[j] = ">" THEN j
    ELSE TagClose(s, j + 1)

TagEnd(s, i) ==
    IF s[i] = "<" /\ i + 1 <= Len(s) /\ s[i + 1] \in TagStart
    THEN TagClose(s, i + 2)
    ELSE 0

\* BeautifulSoup(text, "lxml").get_text(): the text outside the tags
RECURSIVE GetText(_, _)
GetText(s, i) ==
    IF i > Len(s) THEN <<>>
    ELSE IF TagEnd(s, i) # 0 THEN GetText(s, TagEnd(s, i) + 1)
    ELSE <<s[i]>> \o GetText(s, i + 1)

\* lines 62-76
CleanHtml(text) == IF ~Truthy(text) THEN <<>> ELSE GetText(text, 1)

-----------------------------------------------------------------------------
(* The entity tagger and the date parser, as the extractors see them *)

\* nlp(text).ents: spans with a label
Ent(text, label) == [text |-> text, label |-> label]

Y1987 == <<"1","9","8","7">>
Y2023 == <<"2","0","2","3">>
Soon == <<"s","o","o","n">>

\* dateparser.parse: a datetime for the expressions it understands, else None
DateParserTable ==
    (Y1987 :> 19870226) @@ (Y2023 :> 20230315)
    @@ (<<"1","/","2","/","8","7">> :> 19870102)

Parseable(expr) == expr \in DOMAIN DateParserTable

\* datetime.now()
Now == 20261101

\* duplicates removed keeping the last occurrence of each
RECURSIVE DedupKeepLast(_, _)
DedupKeepLast(xs, seen) ==
    IF xs = <<>> THEN <<>>
    ELSE IF \E i \in 2..Len(xs) : xs[i] = Head(xs)
    THEN DedupKeepLast(Tail(xs), seen)
    ELSE <<Head(xs)>> \o DedupKeepLast(Tail(xs), seen)

RECURSIVE Dedup(_, _)
Dedup(xs, seen) ==
    IF xs = <<>> THEN <<>>
    ELSE IF Head(xs) \in seen THEN Dedup(Tail(xs), seen)
    ELSE <<Head(xs)>> \o Dedup(Tail(xs), seen \cup {Head(xs)})

RECURSIVE TextsWithLabel(_, _)
TextsWithLabel(ents, labels) ==
    IF ents = <<>> THEN <<>>
    ELSE (IF Head(ents).label \in labels THEN <<Head(ents).text>> ELSE <<>>)
         \o TextsWithLabel(Tail(ents), labels)

RECURSIVE ParseAll(_)
ParseAll(exprs) ==
    IF exprs = <<>> THEN <<>>
    ELSE (IF Parseable(Head(exprs)) THEN <<DateParserTable[Head(exprs)]>> ELSE <<>>)
         \o ParseAll(Tail(exprs))

RECURSIVE MaxOf(_)
MaxOf(ts) ==
    IF Len(ts) = 1 THEN ts[1]
    ELSE IF ts[1] >= MaxOf(Tail(ts)) THEN ts[1] ELSE MaxOf(Tail(ts))

\* TemporalExtractor.extract_temporal_expressions, with the tagger available
TemporalExtract(ents) ==
    [temporal_expressions |-> Dedup(TextsWithLabel(ents, {"DATE", "TIME"}), {}),
     parsed_dates |-> ParseAll(Dedup(TextsWithLabel(ents, {"DATE", "TIME"}), {}))]

Untitled == <<"u","n","t","i","t","l","e","d">>

\* GeoExtractor.extract_georeferences, lines 55-63: the set of place names
PlaceSet(ents) ==
    {ents[i].text : i \in {k \in 1..Len(ents) :
        ents[k].label \in {"GPE", "LOC", "FAC"} /\ Lower(ents[k].text) # Untitled}}

\* line 66: sorted(list(set), key=len, reverse=True).  The sort is stable and
\* a set of str iterates in an order that changes from run to run, so names
\* of equal length may come out in any order.
SortedByLength(names) ==
    {order \in [1..Cardinality(names) -> names] :
        /\ \A i, j \in 1..Cardinality(names) : i # j => order[i] # order[j]
        /\ \A i, j \in 1..Cardinality(names) :
              i < j => Len(order[i]) >= Len(order[j])}

ExtractGeoreferences(ents) == SortedByLength(PlaceSet(ents))

\* GeoExtractor.extract_and_geocode, lines 186-195: the first GPE, or None
PossibleContext(ents) ==
    IF \E i \in 1..Len(ents) : ents[i].label = "GPE"
    THEN ents[CHOOSE i \in 1..Len(ents) :
                /\ ents[i].label = "GPE"
                /\ \A j \in 1..(i - 1) : ents[j].label # "GPE"].text
    ELSE NoContext

\* line 199
ContextFor(georef, possible_context) ==
    IF georef # possible_context THEN possible_context ELSE NoContext

\* lines 197-203 and document_processor.py lines 177-180: geocode the places
\* in order, each call working on the cache the one before left
RECURSIVE GeocodeEach(_, _, _, _, _)
GeocodeStep(rest, possible_context, r, oracle, acc) ==
    GeocodeEach(rest, possible_context, r.cache, oracle,
                [results |-> Append(acc.results, r.result), ext |-> acc.ext \o r.ext])

GeocodeEach(places, possible_context, cache, oracle, acc) ==
    IF places = <<>>
    THEN [results |-> acc.results, cache |-> cache, ext |-> acc.ext]
    ELSE GeocodeStep(Tail(places), possible_context,
                     GeocodeLocation(cache, Head(places),
                                     ContextFor(Head(places), possible_context), oracle),
                     oracle, acc)

\* the results of a loop that stops at the first place that is not found
RECURSIVE FoundPrefix(_)
FoundPrefix(results) ==
    IF results = <<>> \/ ~Head(results).found THEN <<>>
    ELSE <<Head(results)>> \o FoundPrefix(Tail(results))

\* the results that are not None, in order
RECURSIVE FoundOnly(_)
FoundOnly(results) ==
    IF results = <<>> THEN <<>>
    ELSE (IF Head(results).found THEN <<Head(results)>> ELSE <<>>)
         \o FoundOnly(Tail(results))

-----------------------------------------------------------------------------
(* DocumentProcessor.process_document *)

MaxStructuredPlaces == 5

NoDate == [kind |-> "none", t |-> 0]
DateStr(t) == [kind |-> "str", t |-> t]
DateTime(t) == [kind |-> "datetime", t |-> t]

\* doc_date.strftime("%Y-%m-%dT%H:%M:%S")
Strftime(t) == [kind |-> "str", t |-> t]

NoGeopoint == [present |-> FALSE, lat |-> 0, lon |-> 0]
Geopoint(lat, lon) == [present |-> TRUE, lat |-> lat, lon |-> lon]

\* doc_data["metadata"]: None (null), or a dict whose missing or None entries
\* are the empty values
NullMetadata == [null |-> TRUE, reuters_date |-> <<>>, reuters_places |-> <<>>]
Metadata(reuters_date, reuters_places) ==
    [null |-> FALSE, reuters_date |-> reuters_date, reuters_places |-> reuters_places]

\* lines 153-168
DocTemporal(doc) ==
    IF Truthy(doc.metadata.reuters_date)
    THEN [temporal_expressions |-> <<doc.metadata.reuters_date>>,
          parsed_dates |-> IF Parseable(doc.metadata.reuters_date)
                           THEN <<DateParserTable[doc.metadata.reuters_date]>>
                           ELSE <<>>,
          tagger |-> <<>>]
    ELSE [temporal_expressions |-> TemporalExtract(doc.ents).temporal_expressions,
          parsed_dates |-> TemporalExtract(doc.ents).parsed_dates,
          tagger |-> <<"temporal">>]

\* georeferences without the [:5]
FirstPlacesUncapped(places) == places

\* line 177: georeferences[:5]
FirstPlaces(places) ==
    SubSeq(places, 1, IF Len(places) < MaxStructuredPlaces THEN Len(places)
                      ELSE MaxStructuredPlaces)

GeoPart(georeferences, sent, geocoded, tagger) ==
    [georeferences |-> georeferences, sent |-> sent, results |-> geocoded.results,
     cache |-> geocoded.cache, ext |-> geocoded.ext, tagger |-> tagger]

NoResults == [results |-> <<>>, ext |-> <<>>]

\* lines 172-185.  text_georeferences: what extract_georeferences returned for
\* the text, used when the metadata has no places
DocGeo(doc, text_georeferences, cache, oracle) ==
    IF Truthy(doc.metadata.reuters_places)
    THEN GeoPart(doc.metadata.reuters_places, FirstPlaces(doc.metadata.reuters_places),
                 GeocodeEach(FirstPlaces(doc.metadata.reuters_places), NoContext,
                             cache, oracle, NoResults),
                 <<>>)
    ELSE GeoPart(text_georeferences, text_georeferences,
                 GeocodeEach(text_georeferences, PossibleContext(doc.ents),
                             cache, oracle, NoResults),
                 <<"places", "context">>)

\* lines 191-199
DocDate(doc, parsed_dates) ==
    IF doc.date.kind = "str" THEN doc.date
    ELSE IF doc.date.kind = "datetime" THEN Strftime(doc.date.t)
    ELSE IF Truthy(parsed_dates) THEN Strftime(MaxOf(parsed_dates))
    ELSE Strftime(Now)

\* the geocoded location taking precedence over the supplied geopoint
DocGeopointGeocodedFirst(doc, geocoded_locations) ==
    IF Truthy(geocoded_locations)
    THEN Geopoint(geocoded_locations[1].lat, geocoded_locations[1].lon)
    ELSE doc.geopoint

\* lines 202-207
DocGeopoint(doc, geocoded_locations) ==
    IF doc.geopoint.present THEN doc.geopoint
    ELSE IF Truthy(geocoded_locations)
    THEN Geopoint(geocoded_locations[1].lat, geocoded_locations[1].lon)
    ELSE NoGeopoint

\* the test of line 239 made on the content as supplied
WantsVectorRaw(raw_content, content) == Truthy(raw_content)

\* line 239: whether the content gets a vector
WantsVector(raw_content, content) == Truthy(content)

\* lines 210-242: the record; fields holds the optional keys that are set
BuildRecord(doc, content, temporal, geo) ==
    [title |-> doc.title,
     content |-> content,
     authors |-> ParseAuthors(doc.authors),
     date |-> DocDate(doc, temporal.parsed_dates),
     temporal_expressions |-> temporal.temporal_expressions,
     georeferences |-> geo.georeferences,
     geopoint |-> DocGeopoint(doc, FoundOnly(geo.results)),
     extracted_dates |-> temporal.parsed_dates,
     extracted_locations |-> FoundOnly(geo.results),
     content_vector |-> IF WantsVector(doc.content, content) THEN content ELSE <<>>,
     fields |-> (IF DocGeopoint(doc, FoundOnly(geo.results)).present
                 THEN {"geopoint"} ELSE {})
                \cup (IF Truthy(temporal.parsed_dates) THEN {"extracted_dates"} ELSE {})
                \cup (IF Truthy(FoundOnly(geo.results))
                      THEN {"extracted_locations"} ELSE {})
                \cup (IF WantsVector(doc.content, content)
                      THEN {"content_vector"} ELSE {})]

NoRecord ==
    [title |-> <<>>, content |-> <<>>, authors |-> <<>>, date |-> NoDate,
     temporal_expressions |-> <<>>, georeferences |-> <<>>, geopoint |-> NoGeopoint,
     extracted_dates |-> <<>>, extracted_locations |-> <<>>, content_vector |-> <<>>,
     fields |-> {}]

DocOutcome(raised, record, cache, geo, tagger) ==
    [raised |-> raised, record |-> record, cache |-> cache,
     ext |-> geo.ext, sent |-> geo.sent, results |-> geo.results, tagger |-> tagger]

NoGeoPart ==
    [georeferences |-> <<>>, sent |-> <<>>, results |-> <<>>, cache |-> <<>>,
     ext |-> <<>>, tagger |-> <<>>]

ProcessWith(doc, content, temporal, geo, model) ==
    IF WantsVector(doc.content, content) /\ ~model
    THEN \* embedding_helper.py lines 41-42: encode raises RuntimeError
         DocOutcome("RuntimeError", NoRecord, geo.cache, geo,
                    temporal.tagger \o geo.tagger)
    ELSE DocOutcome("", BuildRecord(doc, content, temporal, geo), geo.cache, geo,
                    temporal.tagger \o geo.tagger)

\* lines 125-242.  model: whether the embedding model is loaded
ProcessDocument(doc, text_georeferences, cache, oracle, model) ==
    IF doc.metadata.null
    THEN \* line 153: None has no get
         DocOutcome("AttributeError", NoRecord, cache, NoGeoPart, <<>>)
    ELSE CHOOSE out \in
            {ProcessWith(doc, content, temporal, geo, model) :
                content \in {CleanHtml(doc.content)},
                temporal \in {DocTemporal(doc)},
                geo \in {DocGeo(doc, text_georeferences, cache, oracle)}} : TRUE

-----------------------------------------------------------------------------
(* Documents of the model *)

London == <<"L","o","n","d","o","n">>
Oz == <<"O","z">>
UK == <<" ","U","K">>

Titles == { <<"T">> }

Contents == { <<>>, <<"<","p",">","<","/","p",">">>,
              <<"<","p",">","x","<","/","p",">">> }

EntLists ==
    { <<>>,
      <<Ent(Y1987, "DATE"), Ent(Soon, "DATE"), Ent(Y2023, "TIME"), Ent(Y1987, "DATE")>>,
      <<Ent(Y1987, "DATE"), Ent(Oz, "LOC")>>,
      <<Ent(Oz, "FAC"), Ent(London, "GPE")>> }

Dates == { NoDate, DateStr(19990101), DateTime(19990102) }

Geopoints == { NoGeopoint, Geopoint(10000, 20000) }

Metadatas ==
    { NullMetadata,
      Metadata(<<>>, <<>>),
      Metadata(Y1987, <<>>),
      Metadata(Soon, <<>>),
      Metadata(<<>>, <<Oz, London>>),
      Metadata(Y2023, <<Oz, London, Oz, UK, London, UK>>) }

DocAuthors ==
    { NoAuthors,
      AuthorsList(<<AuthorStr(<<"M","a","d","o","n","n","a">>)>>) }

Docs ==
    [title : Titles, content : Contents, ents : EntLists, date : Dates,
     geopoint : Geopoints, metadata : Metadatas, authors : DocAuthors]

\* the queries the geocoding of a document may send out
DocQueries(doc) ==
    IF Truthy(doc.metadata.reuters_places)
    THEN {ExpandedName[doc.metadata.reuters_places[i]] :
            i \in 1..Len(doc.metadata.reuters_places)}
    ELSE UNION {QueriesOf(g, ContextFor(g, PossibleContext(doc.ents))) :
                    g \in PlaceSet(doc.ents)}

DocOutcomes ==
    {o \in Outcomes : o.kind \in {"none", "timeout"} \/ (o.kind = "found" /\ o.full)}

NoDoc ==
    [called |-> FALSE, doc |-> CHOOSE d \in Docs : TRUE,
     text_georeferences |-> <<>>, out |-> DocOutcome("", NoRecord, <<>>, NoGeoPart, <<>>),
     cache_before |-> <<>>]

DocIdle == embedding_model = TRUE /\ doc_last = NoDoc

\* EmbeddingHelper.__new__, lines 18-29: the model loads, or the exception is
\* swallowed and _model stays None
DocInit == embedding_model \in BOOLEAN /\ doc_last = NoDoc

Process(doc) ==
    /\ ~doc_last.called
    /\ \E text_georeferences \in ExtractGeoreferences(doc.ents),
          oracle \in [DocQueries(doc) -> DocOutcomes] :
        /\ \A q \in DocQueries(doc) : Consistent(geocoder_db, q, oracle[q])
        /\ \E out \in {ProcessDocument(doc, text_georeferences, geocode_cache,
                                        oracle, embedding_model)} :
            /\ geocode_cache' = out.cache
            /\ geocoder_db' = Record(geocoder_db, out.ext, oracle)
            /\ doc_last' = [called |-> TRUE, doc |-> doc,
                            text_georeferences |-> text_georeferences, out |-> out,
                            cache_before |-> geocode_cache]
    /\ UNCHANGED <<service_vars, geo_seen, geo_last, geo_calls, embedding_model, authors_vars, bulk_last,
                 extract_vars, search_last>>

\* An earlier geocode_location(place) on the same GeoExtractor, as made for
\* the structured places of a document processed before (line 178).
EarlierGeocode(place) ==
    /\ ~doc_last.called
    /\ \A q \in GeoQueries : geocoder_db[q] = Unasked
    /\ \E oracle \in [QueriesOf(place, NoContext) -> DocOutcomes] :
        \E r \in {GeocodeLocation(geocode_cache, place, NoContext, oracle)} :
            /\ geocode_cache' = r.cache
            /\ geocoder_db' = Record(geocoder_db, r.ext, oracle)
    /\ UNCHANGED <<service_vars, geo_seen, geo_last, geo_calls, doc_vars, authors_vars, bulk_last,
                 extract_vars, search_last>>

DocNext ==
    \/ ~doc_last.called /\ \E doc \in Docs : Process(doc)
    \/ ~doc_last.called /\ \E place \in {Oz, London} : EarlierGeocode(place)

-----------------------------------------------------------------------------
(* DocumentProcessor.index_documents_bulk, index_from_json_file and          *)
(* index_from_directory                                                     *)

\* config/elasticsearch_config.py: INDEX_NAME
index_name == "smart_documents"

\* an entry of the documents list: the document and its "id" key, if it has one
Item(has_id, id, doc) == [has_id |-> has_id, id |-> id, doc |-> doc]

\* lines 279-286
BulkAction(item, processed_doc) ==
    [_index |-> index_name, _source |-> processed_doc,
     has_id |-> item.has_id, _id |-> IF item.has_id THEN item.id ELSE 0]

\* actions.append(action) with the arguments the other way round
PrependAction(actions, action) == <<action>> \o actions

\* line 288
AppendAction(actions, action) == Append(actions, action)

\* lines 274-288: process_document on each document in turn, all on the same
\* GeoExtractor; an exception of process_document leaves the loop and the
\* method.  The documents of the model have no places in their text, so
\* extract_georeferences gives the empty list.
RECURSIVE BuildActions(_, _, _, _, _, _)
\* the loop of lines 276-288 catching the exception of process_document and
\* submitting what it has of the document
BuildStepPartial(rest, item, out, oracle, model, actions, ext) ==
    BuildActions(rest, out.cache, oracle, model,
                 AppendAction(actions, BulkAction(item, out.record)),
                 ext \o out.ext)

BuildStep(rest, item, out, oracle, model, actions, ext) ==
    IF out.raised # ""
    THEN [raised |-> out.raised, actions |-> actions, cache |-> out.cache,
          ext |-> ext \o out.ext]
    ELSE BuildActions(rest, out.cache, oracle, model,
                      AppendAction(actions, BulkAction(item, out.record)),
                      ext \o out.ext)

BuildActions(documents, cache, oracle, model, actions, ext) ==
    IF documents = <<>>
    THEN [raised |-> "", actions |-> actions, cache |-> cache, ext |-> ext]
    ELSE BuildStep(Tail(documents), Head(documents),
                   ProcessDocument(Head(documents).doc, <<>>, cache, oracle, model),
                   oracle, model, actions, ext)

\* the actions at the positions the backend accepts, in order
RECURSIVE Accepted(_, _, _)
Accepted(actions, accepts, i) ==
    IF i > Len(actions) THEN <<>>
    ELSE (IF accepts[i] THEN <<actions[i]>> ELSE <<>>)
         \o Accepted(actions, accepts, i + 1)

\* elasticsearch.helpers.bulk(es, actions, stats_only=True), line 291, with
\* raise_on_error left at its default: the actions go out in one chunk, the
\* accepted ones are written, and any rejected one raises BulkIndexError
HelpersBulk(actions, accepts) ==
    [raised |-> IF \A i \in 1..Len(actions) : accepts[i] THEN ""
                ELSE "BulkIndexError",
     success |-> Len(actions),
     failed |-> 0,
     written |-> Accepted(actions, accepts, 1)]

NoReport == [success |-> 0, failed |-> 0, total |-> 0]

\* lines 293-297
Report(success, failed, total) ==
    [success |-> success, failed |-> failed, total |-> total]

\* What a bulk call did: the exception it raised or the report it returned,
\* the action lists handed to helpers.bulk, and the actions written.
BulkOutcome(raised, report, calls, written, cache, ext) ==
    [raised |-> raised, report |-> report, calls |-> calls, written |-> written,
     cache |-> cache, ext |-> ext]

BulkSubmit(documents, built, sent) ==
    IF sent.raised # ""
    THEN BulkOutcome(sent.raised, NoReport, <<built.actions>>, sent.written,
                     built.cache, built.ext)
    ELSE BulkOutcome("", Report(sent.success, sent.failed, Len(documents)),
                     <<built.actions>>, sent.written, built.cache, built.ext)

BulkBuilt(documents, built, accepts) ==
    IF built.raised # ""
    THEN BulkOutcome(built.raised, NoReport, <<>>, <<>>, built.cache, built.ext)
    ELSE BulkSubmit(documents, built, HelpersBulk(built.actions, accepts))

\* lines 264-297
IndexDocumentsBulk(documents, cache, oracle, model, accepts) ==
    BulkBuilt(documents, BuildActions(documents, cache, oracle, model, <<>>, <<>>),
              accepts)

\* json.load(f) of a file: one document (a dict) or a list of documents
FileDict(item) == [kind |-> "dict", documents |-> <<item>>]
FileList(documents) == [kind |-> "list", documents |-> documents]

\* lines 309-315: a dict becomes the list of that one document
IndexFromJsonFile(content, cache, oracle, model, accepts) ==
    IndexDocumentsBulk(content.documents, cache, oracle, model, accepts)

\* an entry of os.listdir: whether the name ends in ".json", and the content
DirEntry(json, content) == [json |-> json, content |-> content]

\* lines 327-343.  accepts[i]: what the backend accepts of the i-th file
RECURSIVE IndexFromDirectory(_, _, _, _, _, _, _)
DirectoryStep(rest, r, oracle, model, accepts, i, acc) ==
    IF r.raised # ""
    THEN BulkOutcome(r.raised, NoReport, acc.calls \o r.calls,
                     acc.written \o r.written, r.cache, acc.ext \o r.ext)
    ELSE IndexFromDirectory(rest, r.cache, oracle, model, accepts, i + 1,
            [total_success |-> acc.total_success + r.report.success,
             total_failed |-> acc.total_failed + r.report.failed,
             calls |-> acc.calls \o r.calls,
             written |-> acc.written \o r.written,
             ext |-> acc.ext \o r.ext])

IndexFromDirectory(entries, cache, oracle, model, accepts, i, acc) ==
    IF entries = <<>>
    THEN BulkOutcome("", Report(acc.total_success, acc.total_failed,
                                acc.total_success + acc.total_failed),
                     acc.calls, acc.written, cache, acc.ext)
    ELSE IF ~Head(entries).json
    THEN IndexFromDirectory(Tail(entries), cache, oracle, model, accepts, i + 1, acc)
    ELSE DirectoryStep(Tail(entries),
                       IndexFromJsonFile(Head(entries).content, cache, oracle,
                                         model, accepts[i]),
                       oracle, model, accepts, i, acc)

NoTotals ==
    [total_success |-> 0, total_failed |-> 0, calls |-> <<>>, written |-> <<>>,
     ext |-> <<>>]

\* lines 257-260: es.index of the processed document, under doc_id when one
\* is given; the backend writes it or the client raises
EsIndex(item, out, accepted) ==
    BulkOutcome(IF accepted THEN "" ELSE "ApiError", NoReport,
                <<<<BulkAction(item, out.record)>>>>,
                IF accepted THEN <<BulkAction(item, out.record)>> ELSE <<>>,
                out.cache, out.ext)

\* lines 244-262: index_document(doc_data, doc_id)
IndexProcessed(item, out, accepted) ==
    IF out.raised # ""
    THEN BulkOutcome(out.raised, NoReport, <<>>, <<>>, out.cache, out.ext)
    ELSE EsIndex(item, out, accepted)

IndexDocument(item, cache, oracle, model, accepted) ==
    IndexProcessed(item, ProcessDocument(item.doc, <<>>, cache, oracle, model),
                   accepted)

-----------------------------------------------------------------------------
(* Bulk indexing calls of the model *)

BulkDoc(content, metadata) ==
    [title |-> <<"T">>, content |-> content, ents |-> <<>>, date |-> NoDate,
     geopoint |-> NoGeopoint, metadata |-> metadata, authors |-> NoAuthors]

\* a plain document, one whose "metadata" is null, one with content to embed
\* and no "id", and one with a place to geocode
ItemPlain == Item(TRUE, 1, BulkDoc(<<>>, Metadata(<<>>, <<>>)))
ItemNull == Item(TRUE, 2, BulkDoc(<<>>, NullMetadata))
ItemText == Item(FALSE, 0, BulkDoc(<<"<","p",">","x","<","/","p",">">>, Metadata(<<>>, <<>>)))
ItemPlace == Item(TRUE, 3, BulkDoc(<<>>, Metadata(<<>>, <<Oz>>)))

BulkItems == {ItemPlain, ItemNull, ItemText, ItemPlace}

Batches == UNION {[1..n -> BulkItems] : n \in 0..MaxBatch}

FileContents ==
    {FileDict(ItemPlain), FileDict(ItemNull), FileList(<<>>),
     FileList(<<ItemText, ItemPlace>>), FileList(<<ItemPlace, ItemPlain>>)}

DirEntries ==
    {DirEntry(TRUE, c) : c \in FileContents}
    \cup {DirEntry(FALSE, FileDict(ItemNull))}

\* the positions a file of the model has documents at
FilePositions == UNION {DOMAIN c.documents : c \in FileContents}

Directories == UNION {[1..n -> DirEntries] : n \in 0..MaxFiles}

BulkQueries == {ExpandedName[Oz]}

NoBulk ==
    [called |-> FALSE, op |-> "", documents |-> <<>>, entries |-> <<>>,
     out |-> BulkOutcome("", NoReport, <<>>, <<>>, <<>>, <<>>)]

BulkIdle == bulk_last = NoBulk

BulkCalled(op, documents, entries, out) ==
    /\ geocode_cache' = out.cache
    /\ bulk_last' = [called |-> TRUE, op |-> op, documents |-> documents,
                     entries |-> entries, out |-> out]
    /\ UNCHANGED <<service_vars, geo_seen, geo_last, geo_calls, doc_vars, authors_vars,
                 extract_vars, search_last>>

BulkCall(documents) ==
    /\ ~bulk_last.called
    /\ \E oracle \in [BulkQueries -> DocOutcomes],
          accepts \in [1..MaxBatch -> BOOLEAN] :
        \E out \in {IndexDocumentsBulk(documents, geocode_cache, oracle,
                                       embedding_model, accepts)} :
            /\ geocoder_db' = Record(geocoder_db, out.ext, oracle)
            /\ BulkCalled("bulk", documents, <<>>, out)

FileCall(content) ==
    /\ ~bulk_last.called
    /\ \E oracle \in [BulkQueries -> DocOutcomes],
          accepts \in [FilePositions -> BOOLEAN] :
        \E out \in {IndexFromJsonFile(content, geocode_cache, oracle,
                                      embedding_model, accepts)} :
            /\ geocoder_db' = Record(geocoder_db, out.ext, oracle)
            /\ BulkCalled("file", content.documents, <<>>, out)

DirectoryCall(entries) ==
    /\ ~bulk_last.called
    /\ \E oracle \in [BulkQueries -> DocOutcomes],
          accepts \in [1..MaxFiles -> [FilePositions -> BOOLEAN]] :
        \E out \in {IndexFromDirectory(entries, geocode_cache, oracle,
                                       embedding_model, accepts, 1, NoTotals)} :
            /\ geocoder_db' = Record(geocoder_db, out.ext, oracle)
            /\ BulkCalled("directory", <<>>, entries, out)

IndexCall(item) ==
    /\ ~bulk_last.called
    /\ \E oracle \in [BulkQueries -> DocOutcomes], accepted \in BOOLEAN :
        \E out \in {IndexDocument(item, geocode_cache, oracle, embedding_model,
                                  accepted)} :
            /\ geocoder_db' = Record(geocoder_db, out.ext, oracle)
            /\ BulkCalled("index", <<item>>, <<>>, out)

\* single and bulk indexing
IndexNext ==
    \/ \E item \in BulkItems : IndexCall(item)
    \/ \E documents \in Batches : BulkCall(documents)
    \/ \E content \in FileContents : FileCall(content)
    \/ \E entries \in Directories : DirectoryCall(entries)

BulkNext ==
    \/ \E documents \in Batches : BulkCall(documents)
    \/ \E content \in FileContents : FileCall(content)
    \/ \E entries \in Directories : DirectoryCall(entries)

-----------------------------------------------------------------------------
(* GeoExtractor.extract_georeferences on its own *)

Ab == <<"A","b">>
UntitledPlace == <<"U","n","t","i","t","l","e","d">>

\* a text, as the entity tagger sees it; spacy: SPACY_AVAILABLE and nlp loaded
Text(spacy, ents) == [spacy |-> spacy, ents |-> ents]

\* lines 42-68: without the tagger the set stays empty
ExtractGeoreferencesOf(text) ==
    IF text.spacy THEN ExtractGeoreferences(text.ents) ELSE {<<>>}

PlaceEnts ==
    {Ent(t, l) : t \in {Oz, Ab, London, UntitledPlace}, l \in {"GPE", "LOC", "DATE"}}

PlaceTexts ==
    {Text(spacy, ents) : spacy \in BOOLEAN,
                         ents \in UNION {[1..n -> PlaceEnts] : n \in 0..MaxEnts}}

NoPlaces == [done |-> FALSE, georeferences |-> <<>>]

PlacesIdle == places_in = Text(TRUE, <<>>) /\ places_out = NoPlaces

PlacesInit == places_in \in PlaceTexts /\ places_out = NoPlaces

ExtractGeoreferencesCall ==
    /\ ~places_out.done
    /\ \E georeferences \in ExtractGeoreferencesOf(places_in) :
        places_out' = [done |-> TRUE, georeferences |-> georeferences]
    /\ UNCHANGED <<service_vars, places_in, temporal_in, temporal_out, search_last, geo_vars,
                   authors_vars, doc_vars, bulk_last>>

PlacesNext == ExtractGeoreferencesCall

-----------------------------------------------------------------------------
(* TemporalExtractor.extract_temporal_expressions on its own *)

\* tokens the date pattern of line 67 matches: one dateparser parses, one not
D1 == <<"1","/","2","/","8","7">>
D0 == <<"0","/","0","/","0">>

\* a text: the entities the tagger finds in it and the matches of the date
\* pattern in it
TemporalText(spacy, ents, matches) ==
    [spacy |-> spacy, ents |-> ents, matches |-> matches]

NoDatetime == [present |-> FALSE, t |-> 0]

\* lines 82-84
MostRecent(parsed_dates) ==
    IF Truthy(parsed_dates) THEN [present |-> TRUE, t |-> MaxOf(parsed_dates)]
    ELSE NoDatetime

\* lines 74-90
TemporalResult(temporal_expressions, parsed_dates) ==
    [temporal_expressions |-> temporal_expressions,
     parsed_dates |-> parsed_dates,
     most_recent_date |-> MostRecent(parsed_dates)]

\* lines 56-68
TemporalSpans(text) ==
    IF text.spacy THEN TextsWithLabel(text.ents, {"DATE", "TIME"})
    ELSE text.matches

\* lines 36-90
ExtractTemporalExpressions(text) ==
    TemporalResult(Dedup(TemporalSpans(text), {}),
                   ParseAll(Dedup(TemporalSpans(text), {})))

TemporalEnts ==
    {Ent(t, l) : t \in {Y1987, Y2023, Soon}, l \in {"DATE", "TIME", "GPE"}}

TemporalTexts ==
    {TemporalText(spacy, ents, matches) :
        spacy \in BOOLEAN,
        ents \in UNION {[1..n -> TemporalEnts] : n \in 0..MaxEnts},
        matches \in {<<>>, <<D1, D0, D1>>}}

NoTemporal == [done |-> FALSE, result |-> TemporalResult(<<>>, <<>>)]

TemporalIdle ==
    temporal_in = TemporalText(TRUE, <<>>, <<>>) /\ temporal_out = NoTemporal

TemporalInit == temporal_in \in TemporalTexts /\ temporal_out = NoTemporal

ExtractTemporalCall ==
    /\ ~temporal_out.done
    /\ temporal_out' = [done |-> TRUE,
                        result |-> ExtractTemporalExpressions(temporal_in)]
    /\ UNCHANGED <<service_vars, temporal_in, places_in, places_out, search_last, geo_vars,
                   authors_vars, doc_vars, bulk_last>>

TemporalNext == ExtractTemporalCall

\* both extractors at rest
ExtractIdle == PlacesIdle /\ TemporalIdle

-----------------------------------------------------------------------------
(* Dates of the query engine: datetime values and their isoformat *)

Datetime(year, month, day, hour, minute, second) ==
    [year |-> year, month |-> month, day |-> day,
     hour |-> hour, minute |-> minute, second |-> second]

IsLeap(year) == (year % 4 = 0 /\ year % 100 # 0) \/ year % 400 = 0

DaysInMonth(year, month) ==
    IF month = 2 THEN (IF IsLeap(year) THEN 29 ELSE 28)
    ELSE IF month \in {4, 6, 9, 11} THEN 30
    ELSE 31

\* the day before, at 23:59:59
EndOfDayBefore(dt) ==
    IF dt.day > 1
    THEN Datetime(dt.year, dt.month, dt.day - 1, 23, 59, 59)
    ELSE IF dt.month > 1
    THEN Datetime(dt.year, dt.month - 1, DaysInMonth(dt.year, dt.month - 1), 23, 59, 59)
    ELSE Datetime(dt.year - 1, 12, 31, 23, 59, 59)

\* dt - timedelta(seconds=1)
MinusOneSecond(dt) ==
    IF dt.second > 0 THEN [dt EXCEPT !.second = dt.second - 1]
    ELSE IF dt.minute > 0 THEN [dt EXCEPT !.minute = dt.minute - 1, !.second = 59]
    ELSE IF dt.hour > 0
    THEN [dt EXCEPT !.hour = dt.hour - 1, !.minute = 59, !.second = 59]
    ELSE EndOfDayBefore(dt)

Digits == <<"0","1","2","3","4","5","6","7","8","9">>

\* the decimal digits of n, zero-padded to width
RECURSIVE Pad(_, _)
Pad(n, width) ==
    IF width = 0 THEN <<>>
    ELSE Pad(n \div 10, width - 1) \o <<Digits[(n % 10) + 1]>>

\* datetime.isoformat() of a value with no microseconds
Isoformat(dt) ==
    Pad(dt.year, 4) \o <<"-">> \o Pad(dt.month, 2) \o <<"-">> \o Pad(dt.day, 2)
    \o <<"T">> \o Pad(dt.hour, 2) \o <<":">> \o Pad(dt.minute, 2)
    \o <<":">> \o Pad(dt.second, 2)

-----------------------------------------------------------------------------
(* The temporal expression of a search, lines 143-183 *)

\* line 153: the month names looked for in the lowered expression
MonthTokens ==
    { <<"j","a","n","u","a","r","y">>,
      <<"f","e","b","r","u","a","r","y">>,
      <<"m","a","r","c","h">>,
      <<"a","p","r","i","l">>,
      <<"m","a","y">>,
      <<"j","u","n","e">>,
      <<"j","u","l","y">>,
      <<"a","u","g","u","s","t">>,
      <<"s","e","p","t","e","m","b","e","r">>,
      <<"o","c","t","o","b","e","r">>,
      <<"n","o","v","e","m","b","e","r">>,
      <<"d","e","c","e","m","b","e","r">>,
      <<"j","a","n">>,
      <<"f","e","b">>,
      <<"m","a","r">>,
      <<"a","p","r">>,
      <<"j","u","n">>,
      <<"j","u","l">>,
      <<"a","u","g">>,
      <<"s","e","p">>,
      <<"o","c","t">>,
      <<"n","o","v">>,
      <<"d","e","c">> }

IsDigit(c) == \E i \in 1..Len(Digits) : Digits[i] = c

StartsWithAt(s, i, old) ==
    /\ i + Len(old) - 1 <= Len(s)
    /\ SubSeq(s, i, i + Len(old) - 1) = old

\* s.replace(old, ""): the occurrences of old removed, left to right
RECURSIVE Remove(_, _, _)
Remove(s, old, i) ==
    IF i > Len(s) THEN <<>>
    ELSE IF StartsWithAt(s, i, old) THEN Remove(s, old, i + Len(old))
    ELSE <<s[i]>> \o Remove(s, old, i + 1)

HasMonthToken(date_str) == \E m \in MonthTokens : IsSubstring(m, date_str)

HasDigit(s) == \E i \in 1..Len(s) : IsDigit(s[i])

\* line 153
IsOnlyMonthYearOf(date_str) ==
    /\ HasMonthToken(date_str)
    /\ ~HasDigit(Remove(Remove(date_str, <<"1","9","8","7">>, 1),
                        <<"1","9","8","8">>, 1))

\* lines 152-153
IsOnlyMonthYear(temporal_expression) == IsOnlyMonthYearOf(Lower(temporal_expression))

\* line 155
TreatAsMonth(temporal_expression) ==
    IsOnlyMonthYear(temporal_expression) \/ Len(temporal_expression) < 10

\* lines 157-163
MonthRange(parsed_date) ==
    [date_start |-> [parsed_date EXCEPT !.day = 1, !.hour = 0, !.minute = 0,
                                        !.second = 0],
     date_end |->
        IF parsed_date.month = 12
        THEN MinusOneSecond(Datetime(parsed_date.year + 1, 1, 1, 0, 0, 0))
        ELSE MinusOneSecond(Datetime(parsed_date.year, parsed_date.month + 1,
                                     1, 0, 0, 0))]

\* lines 165-166
DayRange(parsed_date) ==
    [date_start |-> [parsed_date EXCEPT !.hour = 0, !.minute = 0, !.second = 0],
     date_end |-> [parsed_date EXCEPT !.hour = 23, !.minute = 59, !.second = 59]]

\* lines 155-166
DateRange(temporal_expression, parsed_date) ==
    IF TreatAsMonth(temporal_expression) THEN MonthRange(parsed_date)
    ELSE DayRange(parsed_date)

\* The expressions of the model
February1987 == <<"F","e","b","r","u","a","r","y"," ","1","9","8","7">>
March2023 == <<"M","a","r","c","h"," ","2","0","2","3">>
December1999 == <<"D","e","c","e","m","b","e","r"," ","1","9","9","9">>
May2023 == <<"M","a","y"," ","2","0","2","3">>
SlashDate == <<"1","/","2","/","2","0","2","4">>
March15 == <<"M","a","r","c","h"," ","1","5",","," ","2","0","2","3">>

\* What dateparser reads in an expression: nothing, a month and a year, or a
\* full date
Unparsed == [kind |-> "none", year |-> 0, month |-> 0, day |-> 0]
MonthYear(year, month) == [kind |-> "monthyear", year |-> year, month |-> month, day |-> 0]
FullDate(year, month, day) == [kind |-> "date", year |-> year, month |-> month, day |-> day]

SearchDateTable ==
    (February1987 :> MonthYear(1987, 2)) @@ (March2023 :> MonthYear(2023, 3))
    @@ (December1999 :> MonthYear(1999, 12)) @@ (May2023 :> MonthYear(2023, 5))
    @@ (SlashDate :> FullDate(2024, 1, 2)) @@ (March15 :> FullDate(2023, 3, 15))
    @@ (Soon :> Unparsed)

NoParse == [parsed |-> FALSE, dt |-> Datetime(0, 0, 0, 0, 0, 0)]

\* dateparser.parse(temporal_expression), line 146, on the day `today`: a day
\* the expression does not name is taken from today (the library's default),
\* not beyond the end of the month; the time of day is 00:00:00
DateparserParse(temporal_expression, today) ==
    IF SearchDateTable[temporal_expression].kind = "none" THEN NoParse
    ELSE IF SearchDateTable[temporal_expression].kind = "date"
    THEN [parsed |-> TRUE,
          dt |-> Datetime(SearchDateTable[temporal_expression].year,
                          SearchDateTable[temporal_expression].month,
                          SearchDateTable[temporal_expression].day, 0, 0, 0)]
    ELSE [parsed |-> TRUE,
          dt |-> Datetime(SearchDateTable[temporal_expression].year,
                          SearchDateTable[temporal_expression].month,
                          IF today.day
                               < DaysInMonth(SearchDateTable[temporal_expression].year,
                                             SearchDateTable[temporal_expression].month)
                          THEN today.day
                          ELSE DaysInMonth(SearchDateTable[temporal_expression].year,
                                           SearchDateTable[temporal_expression].month),
                          0, 0, 0)]

-----------------------------------------------------------------------------
(* QueryEngine.search: the compiled query, lines 116-292 *)

\* A clause of the query; every clause has the same fields, kind tells which
\* of them it uses and keys which bounds a range has.
BlankClause ==
    [kind |-> "", field |-> "", fields |-> <<>>, query |-> <<>>, type |-> "",
     fuzziness |-> "", boost |-> 0, keys |-> {}, gte |-> <<>>, lte |-> <<>>,
     distance |-> "", lat |-> 0, lon |-> 0]

\* lines 124-139
BestFieldsClause(query) ==
    [BlankClause EXCEPT !.kind = "multi_match", !.query = query,
                        !.fields = <<"title^10", "content">>,
                        !.type = "best_fields", !.fuzziness = "AUTO"]

PhraseClause(query) ==
    [BlankClause EXCEPT !.kind = "multi_match", !.query = query,
                        !.fields = <<"title.standard^5", "content">>,
                        !.type = "phrase", !.boost = 2]

\* line 229
MatchAllClause == [BlankClause EXCEPT !.kind = "match_all"]

\* lines 168-175 and 201-205
RangeClause(keys, gte, lte) ==
    [BlankClause EXCEPT !.kind = "range", !.field = "date", !.keys = keys,
                        !.gte = gte, !.lte = lte]

\* lines 178-183
TemporalTextClause(temporal_expression) ==
    [BlankClause EXCEPT !.kind = "multi_match", !.query = temporal_expression,
                        !.fields = <<"temporal_expressions", "title", "content">>]

\* lines 187-191
GeoreferenceClause(georeference) ==
    [BlankClause EXCEPT !.kind = "match", !.field = "georeferences",
                        !.query = georeference]

\* lines 209-217
GeoDistanceClause(distance, location) ==
    [BlankClause EXCEPT !.kind = "geo_distance", !.field = "geopoint",
                        !.distance = distance, !.lat = location.lat,
                        !.lon = location.lon]

NoLocationArg == [present |-> FALSE, lat |-> 0, lon |-> 0]
LocationArg(lat, lon) == [present |-> TRUE, lat |-> lat, lon |-> lon]

\* lines 122-140
ShouldClauses(request) ==
    IF Truthy(request.query)
    THEN <<BestFieldsClause(request.query), PhraseClause(request.query)>>
    ELSE <<>>

\* lines 168-175
RangeOf(range) ==
    RangeClause({"gte", "lte"}, Isoformat(range.date_start), Isoformat(range.date_end))

\* lines 143-183
TemporalClauses(request, parsed) ==
    IF ~Truthy(request.temporal_expression) THEN <<>>
    ELSE IF parsed.parsed
    THEN <<RangeOf(DateRange(request.temporal_expression, parsed.dt))>>
    ELSE <<TemporalTextClause(request.temporal_expression)>>

\* lines 186-191
GeoreferenceClauses(request) ==
    IF Truthy(request.georeference)
    THEN <<GeoreferenceClause(request.georeference)>>
    ELSE <<>>

\* the date range filter dropped when a temporal expression is given
DateRangeClausesUnlessTemporal(request) ==
    IF Truthy(request.temporal_expression) THEN <<>>
    ELSE IF Truthy(request.date_from) \/ Truthy(request.date_to)
    THEN <<RangeClause((IF Truthy(request.date_from) THEN {"gte"} ELSE {})
                       \cup (IF Truthy(request.date_to) THEN {"lte"} ELSE {}),
                       request.date_from, request.date_to)>>
    ELSE <<>>

\* lines 194-205
DateRangeClauses(request) ==
    IF Truthy(request.date_from) \/ Truthy(request.date_to)
    THEN <<RangeClause((IF Truthy(request.date_from) THEN {"gte"} ELSE {})
                       \cup (IF Truthy(request.date_to) THEN {"lte"} ELSE {}),
                       request.date_from, request.date_to)>>
    ELSE <<>>

\* lines 208-217
LocationClauses(request) ==
    IF request.location.present
    THEN <<GeoDistanceClause(request.distance, request.location)>>
    ELSE <<>>

\* lines 143-217: filter_clauses, in the order they are appended
FilterClauses(request, today) ==
    TemporalClauses(request, IF Truthy(request.temporal_expression)
                             THEN DateparserParse(request.temporal_expression, today)
                             ELSE NoParse)
    \o GeoreferenceClauses(request)
    \o DateRangeClauses(request)
    \o LocationClauses(request)

\* lines 220-235.  Weights are in tenths: boost = 1.0 - semantic_weight
QueryBody(should_clauses, filter_clauses, semantic_weight) ==
    [keys |-> (IF Truthy(should_clauses) THEN {"should", "minimum_should_match"}
               ELSE {"must"})
              \cup (IF Truthy(filter_clauses) THEN {"filter"} ELSE {})
              \cup {"boost"},
     should |-> should_clauses,
     minimum_should_match |-> IF Truthy(should_clauses) THEN 1 ELSE 0,
     must |-> IF Truthy(should_clauses) THEN <<>> ELSE <<MatchAllClause>>,
     filter |-> filter_clauses,
     boost |-> 10 - semantic_weight]

\* lines 246-256: datetime.now() in the format of strftime
RecencyFunction(today) ==
    [kind |-> "gauss", field |-> "date", origin |-> Isoformat(today),
     scale |-> "365d", decay |-> "0.5", weight |-> 2]

\* the recency function multiplied into the score
FunctionScoreMultiply(query_body, today) ==
    [query |-> query_body, functions |-> <<RecencyFunction(today)>>,
     score_mode |-> "sum", boost_mode |-> "multiply"]

\* lines 243-260
FunctionScore(query_body, today) ==
    [query |-> query_body, functions |-> <<RecencyFunction(today)>>,
     score_mode |-> "sum", boost_mode |-> "sum"]

NoVector == [present |-> FALSE, text |-> <<>>]

\* EmbeddingHelper.encode(text) with the model loaded: the vector of the text
Vector(text) == [present |-> TRUE, text |-> text]

NoKnn ==
    [field |-> "", query_vector |-> NoVector, k |-> 0, num_candidates |-> 0,
     boost |-> 0, keys |-> {}, filter |-> <<>>]

\* lines 266-276
Knn(query_vector, size, semantic_weight, filter_clauses) ==
    [field |-> "content_vector", query_vector |-> query_vector, k |-> size,
     num_candidates |-> 100, boost |-> semantic_weight * 10,
     keys |-> IF Truthy(filter_clauses) THEN {"filter"} ELSE {},
     filter |-> filter_clauses]

\* the test of line 265 without the test on the weight
WantsKnnAnyWeight(query_vector, semantic_weight) == query_vector.present

\* line 265
WantsKnn(query_vector, semantic_weight) ==
    query_vector.present /\ semantic_weight > 0

\* line 276: the filters handed to the kNN search
KnnFilter(filter_clauses) == filter_clauses

NoSort == [first |-> "", geopoint |-> NoLocationArg, order |-> "", unit |-> ""]

\* lines 280-292: "_score" first, then the distance
GeoSort(location) ==
    [first |-> "_score", geopoint |-> location, order |-> "asc", unit |-> "km"]

\* lines 241-292
SearchBody(request, today, filter_clauses, query_vector) ==
    [keys |-> {"size", "query"}
              \cup (IF WantsKnn(query_vector, request.semantic_weight)
                    THEN {"knn"} ELSE {})
              \cup (IF request.location.present THEN {"sort"} ELSE {}),
     size |-> request.size,
     function_score |->
        FunctionScore(QueryBody(ShouldClauses(request), filter_clauses,
                                request.semantic_weight), today),
     knn |-> IF WantsKnn(query_vector, request.semantic_weight)
             THEN Knn(query_vector, request.size, request.semantic_weight,
                      KnnFilter(filter_clauses))
             ELSE NoKnn,
     sort |-> IF request.location.present THEN GeoSort(request.location)
              ELSE NoSort]

NoBody ==
    [keys |-> {}, size |-> 0,
     function_score |-> [query |-> [keys |-> {}, should |-> <<>>,
                                    minimum_should_match |-> 0, must |-> <<>>,
                                    filter |-> <<>>, boost |-> 0],
                         functions |-> <<>>, score_mode |-> "", boost_mode |-> ""],
     knn |-> NoKnn, sort |-> NoSort]

\* lines 116-292: the query sent to the backend, or the exception of encode
\* (line 238, embedding_helper.py lines 41-42); encoded: the texts encode was
\* called with
Compile(request, today, model) ==
    IF Truthy(request.query) /\ ~model
    THEN [raised |-> "RuntimeError", body |-> NoBody, encoded |-> <<request.query>>]
    ELSE [raised |-> "",
          body |-> SearchBody(request, today, FilterClauses(request, today),
                              IF Truthy(request.query) THEN Vector(request.query)
                              ELSE NoVector),
          encoded |-> IF Truthy(request.query) THEN <<request.query>> ELSE <<>>]

-----------------------------------------------------------------------------
(* QueryEngine.search: the response and the normalized scores, lines 294-314 *)

NoMaxScore == [present |-> FALSE, v |-> 0]
MaxScore(v) == [present |-> TRUE, v |-> v]

Hit(id, score, distance) == [id |-> id, score |-> score, distance |-> distance]

\* a score as the quotient of two raw scores
Quotient(num, den) == [num |-> num, den |-> den]
ZeroScore == Quotient(0, 1)

\* line 296: response["hits"].get("max_score") or 0
MaxScoreOrZero(response) ==
    IF response.max_score.present THEN response.max_score.v ELSE 0

\* the division of line 300 made whenever the top score is not negative
NormalizeFromZero(score, max_score) ==
    IF max_score >= 0 THEN Quotient(score, max_score) ELSE ZeroScore

\* line 300
Normalize(score, max_score) ==
    IF max_score > 0 THEN Quotient(score, max_score) ELSE ZeroScore

\* lines 302-312: the hit has a "sort" entry when the query asked for a sort
Result(request, hit, max_score) ==
    [id |-> hit.id, score |-> Normalize(hit.score, max_score),
     keys |-> IF request.location.present THEN {"distance_km"} ELSE {},
     distance_km |-> IF request.location.present THEN hit.distance ELSE 0]

\* the loop of lines 298-312 prepending each result to the list
ResultsReversed(request, response) ==
    [i \in 1..Len(response.hits) |->
        Result(request, response.hits[Len(response.hits) + 1 - i],
               MaxScoreOrZero(response))]

\* lines 296-314
Results(request, response) ==
    [i \in 1..Len(response.hits) |->
        Result(request, response.hits[i], MaxScoreOrZero(response))]

\* The raw scores of the hits the backend may answer with, best first
ScoreLists == { <<>>, <<0>>, <<3>>, <<0, 0>>, <<4, 4>>, <<4, 2, 0>> }

HitsOf(scores) == [i \in 1..Len(scores) |-> Hit(i, scores[i], 10 * i)]

\* es.search, line 294: max_score is the score of the best hit; it is null
\* when there are no hits, and may be null when the query asks for a sort
Responses(body) ==
    {[max_score |-> max_score, hits |-> HitsOf(scores)] :
        scores \in {<<>>}, max_score \in {NoMaxScore}}
    \cup UNION {{[max_score |-> max_score, hits |-> HitsOf(scores)] :
                    max_score \in {MaxScore(scores[1])}
                        \cup (IF "sort" \in body.keys THEN {NoMaxScore} ELSE {})} :
                scores \in ScoreLists \ {<<>>}}

NoResponse == [max_score |-> NoMaxScore, hits |-> <<>>]

-----------------------------------------------------------------------------
(* Search requests of the model *)

Request(query, temporal_expression, georeference, date_from, date_to, location, semantic_weight) ==
    [query |-> query, temporal_expression |-> temporal_expression,
     georeference |-> georeference, date_from |-> date_from, date_to |-> date_to,
     location |-> location, distance |-> "100km", size |-> 10,
     semantic_weight |-> semantic_weight]

TemporalExpressions ==
    {<<>>, February1987, March2023, December1999, May2023, SlashDate, March15, Soon}

DateFrom == <<"1","9","8","7","-","0","1","-","0","1">>
DateTo == <<"1","9","8","7","-","1","2","-","3","1">>

\* semantic_weight 0.0, 0.7 and 1.0, in tenths
SemanticWeights == {0, 7, 10}

Requests ==
    {Request(query, temporal_expression, georeference, date_from, date_to,
             location, semantic_weight) :
        query \in {<<>>, <<"x">>},
        temporal_expression \in TemporalExpressions,
        georeference \in {<<>>, Oz},
        date_from \in {<<>>, DateFrom},
        date_to \in {<<>>, DateTo},
        location \in {NoLocationArg, LocationArg(515074, -1278)},
        semantic_weight \in SemanticWeights}

\* the moments a search is made at
SearchDays == {Datetime(2026, 10, 31, 12, 0, 0), Datetime(2026, 11, 1, 9, 30, 0)}

NoSearch ==
    [called |-> FALSE, request |-> Request(<<>>, <<>>, <<>>, <<>>, <<>>, NoLocationArg, 0),
     today |-> Datetime(0, 0, 0, 0, 0, 0), raised |-> "", body |-> NoBody,
     encoded |-> <<>>, response |-> NoResponse, results |-> <<>>]

SearchIdle == search_last = NoSearch

SearchDone(request, today, compiled, response) ==
    search_last' = [called |-> TRUE, request |-> request, today |-> today,
                    raised |-> compiled.raised, body |-> compiled.body,
                    encoded |-> compiled.encoded, response |-> response,
                    results |-> IF compiled.raised = ""
                                THEN Results(request, response) ELSE <<>>]

\* lines 88-314
Search(request, today) ==
    /\ ~search_last.called
    /\ \E compiled \in {Compile(request, today, embedding_model)} :
        IF compiled.raised # ""
        THEN SearchDone(request, today, compiled, NoResponse)
        ELSE \E response \in Responses(compiled.body) :
                SearchDone(request, today, compiled, response)
    /\ UNCHANGED <<service_vars, geo_vars, authors_vars, doc_vars, bulk_last, extract_vars>>

SearchNext == \E request \in Requests, today \in SearchDays : Search(request, today)

-----------------------------------------------------------------------------
(* The Flask application, src/web/app.py: the index backend, the handlers *)
(* and the responses                                                      *)

\* The Elasticsearch client raises when the node cannot be reached and when
\* the node answers with an error
BackendStates == {"up", "unreachable", "error"}

BackendRaises(backend) ==
    CASE backend = "unreachable" -> "ConnectionError"
      [] backend = "error" -> "ApiError"
      [] OTHER -> ""

\* the node rejects a negative size and a kNN search with k < 1
InvalidBody(body) == body.size < 0 \/ ("knn" \in body.keys /\ body.knn.k < 1)

\* es.search of line 294 for a body the node accepts: at most size hits
Answers(body) ==
    {response \in Responses(body) : Len(response.hits) <= body.size}

\* QueryEngine.search, lines 88-314, with a backend that may fail: sent counts
\* the queries handed to the backend
SearchCall(request, today, model, backend) ==
    LET compiled == Compile(request, today, model) IN
    IF compiled.raised # ""
    THEN {[raised |-> compiled.raised, sent |-> 0, encoded |-> compiled.encoded,
           results |-> <<>>]}
    ELSE IF BackendRaises(backend) # ""
    THEN {[raised |-> BackendRaises(backend), sent |-> 1,
           encoded |-> compiled.encoded, results |-> <<>>]}
    ELSE IF InvalidBody(compiled.body)
    THEN {[raised |-> "BadRequestError", sent |-> 1,
           encoded |-> compiled.encoded, results |-> <<>>]}
    ELSE {[raised |-> "", sent |-> 1, encoded |-> compiled.encoded,
           results |-> [i \in 1..Len(response.hits) |-> response.hits[i].id]] :
            response \in Answers(compiled.body)}

\* the response Flask builds: a handler that returns jsonify(...) answers 200
\* (or the status it gives); an exception that leaves the handler becomes a
\* 500 page that is not the handler's JSON
Response(route, backend, outcome) ==
    [called |-> TRUE, route |-> route, backend |-> backend,
     status |-> IF outcome.raised = "" THEN 200 ELSE 500,
     json |-> outcome.raised = "", results |-> outcome.results, error |-> "",
     unhandled |-> outcome.raised, sent |-> outcome.sent,
     encoded |-> outcome.encoded]

\* lines 62-66: a two-element list becomes the location, anything else None
RouteLocation(location) ==
    IF Truthy(location) /\ Len(location) = 2
    THEN LocationArg(location[1], location[2]) ELSE NoLocationArg

\* lines 50-78: the arguments of search taken from the JSON body
RouteRequest(data) ==
    [Request(data.query, <<>>, <<>>, <<>>, <<>>, RouteLocation(data.location),
             IF "semantic_weight" \in data.fields THEN data.semantic_weight ELSE 5)
        EXCEPT !.size = IF "size" \in data.fields THEN data.size ELSE 10]

NoRoute ==
    [called |-> FALSE, route |-> "", backend |-> "", status |-> 0, json |-> FALSE,
     results |-> <<>>, error |-> "", unhandled |-> "", sent |-> 0, encoded |-> <<>>,
     data |-> [fields |-> {}, query |-> <<>>, location |-> <<>>, size |-> 0,
               semantic_weight |-> 0],
     exists |-> FALSE]

Handled(response, data, exists) ==
    route_last' = [f \in DOMAIN NoRoute |->
                    IF f = "data" THEN data
                    ELSE IF f = "exists" THEN exists
                    ELSE response[f]]

\* POST /api/search, lines 45-80
SearchRoute(data, today, backend) ==
    /\ ~route_last.called
    /\ \E outcome \in SearchCall(RouteRequest(data), today, embedding_model, backend) :
        Handled(Response("search", backend, outcome), data, FALSE)
    /\ UNCHANGED <<geo_vars, authors_vars, doc_vars, bulk_last, extract_vars, search_last,
                 helper, geocoded_last, shared>>

\* QueryEngine.autocomplete, lines 43-86
AutocompleteCall(query, backend) ==
    IF Len(query) < 3
    THEN {[raised |-> "", sent |-> 0, encoded |-> <<>>, results |-> <<>>]}
    ELSE IF BackendRaises(backend) # ""
    THEN {[raised |-> BackendRaises(backend), sent |-> 1, encoded |-> <<>>,
           results |-> <<>>]}
    ELSE {[raised |-> "", sent |-> 1, encoded |-> <<>>, results |-> ids] :
            ids \in {<<>>, <<1>>, <<1, 2>>}}

\* GET /api/autocomplete, lines 31-42
AutocompleteRoute(query, backend) ==
    /\ ~route_last.called
    /\ \E outcome \in (IF Len(query) < 3
                       THEN {[raised |-> "", sent |-> 0, encoded |-> <<>>,
                              results |-> <<>>]}
                       ELSE AutocompleteCall(query, backend)) :
        Handled(Response("autocomplete", backend, outcome),
                [NoRoute.data EXCEPT !.query = query], FALSE)
    /\ UNCHANGED <<geo_vars, authors_vars, doc_vars, bulk_last, extract_vars, search_last,
                 helper, geocoded_last, shared>>

\* the five analytics endpoints, lines 83-145
AnalyticsEndpoints ==
    {"georeferences", "distribution", "overview", "geostats", "temporal"}

\* query_engine.py lines 316-403 and analytics.py lines 27-225: one
\* aggregation query (and a count for the overview), nothing is caught
AnalyticsCall(endpoint, backend) ==
    IF BackendRaises(backend) # ""
    THEN {[raised |-> BackendRaises(backend), sent |-> 1, encoded |-> <<>>,
           results |-> <<>>]}
    ELSE {[raised |-> "", sent |-> IF endpoint = "overview" THEN 2 ELSE 1,
           encoded |-> <<>>, results |-> buckets] :
            buckets \in {<<>>, <<1>>, <<1, 2>>}}

AnalyticsRoute(endpoint, backend) ==
    /\ ~route_last.called
    /\ \E outcome \in AnalyticsCall(endpoint, backend) :
        Handled(Response(endpoint, backend, outcome), NoRoute.data, FALSE)
    /\ UNCHANGED <<geo_vars, authors_vars, doc_vars, bulk_last, extract_vars, search_last,
                 helper, geocoded_last, shared>>

\* QueryEngine.get_document_by_id, lines 405-422: es.get raises NotFoundError
\* for an unknown id and the client's errors when the backend fails; the
\* bare except turns every one of them into None
GetDocumentById(exists, backend) ==
    IF BackendRaises(backend) = "" /\ exists
    THEN [found |-> TRUE, id |-> 1] ELSE [found |-> FALSE, id |-> 0]

\* GET /api/document/<doc_id>, lines 148-158
GetDocumentRoute(exists, backend) ==
    /\ ~route_last.called
    /\ \E result \in {GetDocumentById(exists, backend)} :
        Handled([called |-> TRUE, route |-> "document", backend |-> backend,
                 status |-> IF result.found THEN 200 ELSE 404, json |-> TRUE,
                 results |-> IF result.found THEN <<result.id>> ELSE <<>>,
                 error |-> IF result.found THEN "" ELSE "Document not found",
                 unhandled |-> "", sent |-> 1, encoded |-> <<>>],
                NoRoute.data, exists)
    /\ UNCHANGED <<geo_vars, authors_vars, doc_vars, bulk_last, extract_vars, search_last,
                 helper, geocoded_last, shared>>

\* The JSON bodies posted to /api/search
RouteData ==
    [fields : {{}, {"size"}, {"size", "semantic_weight"}},
     query : {<<>>, <<"x">>},
     location : {<<>>, <<515074>>, <<515074, -1278>>},
     size : {-1, 0, 2, 10},
     semantic_weight : {0, 5}]

RouteQueries == {<<>>, <<"l","o">>, <<"l","o","n">>}

RouteIdle == route_last = NoRoute

RoutesNext ==
    \/ \E data \in RouteData, today \in {Datetime(2026, 11, 1, 9, 30, 0)},
          backend \in BackendStates : SearchRoute(data, today, backend)
    \/ \E query \in RouteQueries, backend \in BackendStates :
          AutocompleteRoute(query, backend)
    \/ \E endpoint \in AnalyticsEndpoints, backend \in BackendStates :
          AnalyticsRoute(endpoint, backend)
    \/ \E exists \in BOOLEAN, backend \in BackendStates :
          GetDocumentRoute(exists, backend)

-----------------------------------------------------------------------------
(* EmbeddingHelper.__new__ and encode, called from several threads *)

Threads == 1..MaxThreads

\* _instance = None, _model = None (lines 15-16); instance and model are
\* identified by the number of the allocation and of the load that made them
NoThread == [pc |-> "idle", calls |-> 0, loaded |-> 0, handle |-> 0, observed |-> ""]

NoHelper ==
    [instance |-> 0, objects |-> 0, model |-> 0, loads |-> 0, returned |-> {},
     threads |-> [t \in Threads |-> NoThread]]

HelperIdle == helper = NoHelper

Step(t, thread, class) ==
    helper' = [class EXCEPT !.threads[t] = thread]

\* line 19: if cls._instance is None
NewCheck(t) ==
    /\ helper.threads[t].pc = "idle"
    /\ helper.threads[t].calls < MaxNew
    /\ Step(t, [helper.threads[t] EXCEPT
                    !.pc = IF helper.instance = 0 THEN "create" ELSE "return",
                    !.calls = @ + 1],
            helper)
    /\ UNCHANGED <<geo_vars, authors_vars, doc_vars, bulk_last, extract_vars,
                   search_last, route_last, geocoded_last,
                   shared>>

\* line 20: cls._instance = super().__new__(cls)
NewCreate(t) ==
    /\ helper.threads[t].pc = "create"
    /\ Step(t, [helper.threads[t] EXCEPT !.pc = "load"],
            [helper EXCEPT !.objects = @ + 1, !.instance = helper.objects + 1])
    /\ UNCHANGED <<geo_vars, authors_vars, doc_vars, bulk_last, extract_vars,
                   search_last, route_last, geocoded_last,
                   shared>>

\* line 24, right-hand side: SentenceTransformer(model_name) returns a model
\* or raises
NewLoad(t, ok) ==
    /\ helper.threads[t].pc = "load"
    /\ Step(t, [helper.threads[t] EXCEPT
                    !.pc = "assign",
                    !.loaded = IF ok THEN helper.loads + 1 ELSE -1],
            [helper EXCEPT !.loads = @ + 1])
    /\ UNCHANGED <<geo_vars, authors_vars, doc_vars, bulk_last, extract_vars,
                   search_last, route_last, geocoded_last,
                   shared>>

\* line 24, the assignment, or lines 26-28: cls._model = None
Assigned(thread) ==
    [pc |-> "return", model |-> IF thread.loaded > 0 THEN thread.loaded ELSE 0]

NewAssign(t) ==
    /\ helper.threads[t].pc = "assign"
    /\ \E a \in {Assigned(helper.threads[t])} :
        /\ Step(t, [helper.threads[t] EXCEPT !.pc = a.pc],
                [helper EXCEPT !.model = a.model])
        /\ embedding_model' = (a.model # 0)
    /\ UNCHANGED <<geo_vars, authors_vars, doc_last, bulk_last, extract_vars,
                   search_last, route_last, geocoded_last,
                   shared>>

\* line 29: return cls._instance
NewReturn(t) ==
    /\ helper.threads[t].pc = "return"
    /\ Step(t, [helper.threads[t] EXCEPT !.pc = "constructed",
                                         !.handle = helper.instance],
            [helper EXCEPT !.returned = @ \cup {helper.instance}])
    /\ UNCHANGED <<geo_vars, authors_vars, doc_vars, bulk_last, extract_vars,
                   search_last, route_last, geocoded_last,
                   shared>>

\* lines 41-45: encode on the handle the thread holds
Encode(t) ==
    /\ helper.threads[t].pc = "constructed"
    /\ Step(t, [helper.threads[t] EXCEPT
                    !.pc = "idle",
                    !.observed = IF helper.model = 0 THEN "RuntimeError"
                                 ELSE "vector"],
            helper)
    /\ UNCHANGED <<geo_vars, authors_vars, doc_vars, bulk_last, extract_vars,
                   search_last, route_last, geocoded_last,
                   shared>>

HelperNext ==
    \E t \in Threads :
        \/ NewCheck(t)
        \/ NewCreate(t)
        \/ \E ok \in BOOLEAN : NewLoad(t, ok)
        \/ NewAssign(t)
        \/ NewReturn(t)
        \/ Encode(t)

-----------------------------------------------------------------------------
(* GeoExtractor.extract_and_geocode on its own *)

\* lines 205-212
GeoResult(georeferences, geocoded_locations, geocoded) ==
    [georeferences |-> georeferences,
     geocoded_locations |-> geocoded_locations,
     primary_location |-> IF Truthy(geocoded_locations)
                          THEN geocoded_locations[1] ELSE NoLocation,
     results |-> geocoded.results, cache |-> geocoded.cache, ext |-> geocoded.ext]

\* lines 167-212.  georeferences: what extract_georeferences returned for the
\* text (line 177)
ExtractAndGeocode(ents, georeferences, cache, oracle) ==
    CHOOSE r \in {GeoResult(georeferences, FoundOnly(geocoded.results), geocoded) :
                    geocoded \in {GeocodeEach(georeferences, PossibleContext(ents),
                                              cache, oracle, NoResults)}} : TRUE

\* the entities of the texts handed to extract_and_geocode
GeocodedEnts ==
    { <<>>,
      <<Ent(Oz, "LOC")>>,
      <<Ent(Oz, "FAC"), Ent(London, "GPE")>>,
      <<Ent(UK, "LOC"), Ent(Y1987, "DATE"), Ent(London, "GPE")>>,
      <<Ent(<<"E","a","s","t"," ","L","o","n","d","o","n">>, "LOC"),
        Ent(London, "GPE"), Ent(Oz, "LOC")>> }

GeocodedQueries(ents) ==
    UNION {QueriesOf(g, ContextFor(g, PossibleContext(ents))) : g \in PlaceSet(ents)}

GeocodedOutcomes == {o \in Outcomes : o.kind = "found" => o.full}

NoGeocoded ==
    [called |-> FALSE, ents |-> <<>>, cache_before |-> <<>>, oracle |-> <<>>,
     out |-> [georeferences |-> <<>>, geocoded_locations |-> <<>>,
              primary_location |-> NoLocation, results |-> <<>>, cache |-> <<>>,
              ext |-> <<>>]]

GeocodedIdle == geocoded_last = NoGeocoded

ExtractAndGeocodeCall(ents) ==
    /\ ~geocoded_last.called
    /\ ~doc_last.called
    /\ \E georeferences \in ExtractGeoreferences(ents),
          oracle \in [GeocodedQueries(ents) -> GeocodedOutcomes] :
        /\ \A q \in GeocodedQueries(ents) : Consistent(geocoder_db, q, oracle[q])
        /\ \E out \in {ExtractAndGeocode(ents, georeferences, geocode_cache, oracle)} :
            /\ geocode_cache' = out.cache
            /\ geocoder_db' = Record(geocoder_db, out.ext, oracle)
            /\ geocoded_last' = [called |-> TRUE, ents |-> ents,
                                 cache_before |-> geocode_cache,
                                 oracle |-> oracle, out |-> out]
    /\ UNCHANGED <<geo_seen, geo_last, geo_calls, doc_vars, authors_vars, bulk_last,
                   extract_vars, search_last, route_last, helper, shared>>

GeocodedNext ==
    \/ ~geocoded_last.called /\ \E doc \in Docs : Process(doc)
    \/ ~geocoded_last.called /\ \E place \in {Oz, London} : EarlierGeocode(place)
    \/ \E ents \in GeocodedEnts : ExtractAndGeocodeCall(ents)

-----------------------------------------------------------------------------
(* geocode_location called from several threads, on one GeoExtractor or on *)
(* several: each instance has the geocode_cache its __init__ made (line 40) *)

Instances == {1, 2}

\* the requests of the model and the queries they send out
SharedNames == {Oz, London}

SharedQueries ==
    {QueryOf[n, c] : n \in SharedNames, c \in GeoContexts}
    \cup {ExpandedName[n] : n \in SharedNames}

\* a geocoder that is deterministic per query: it answers a query the same
\* way every time
SharedAnswers ==
    [SharedQueries -> {o \in Outcomes : o.kind \in {"none", "timeout", "found"}}]

IdleThread ==
    [pc |-> "idle", inst |-> 0, name |-> <<>>, context |-> <<>>, query |-> <<>>,
     coords |-> <<0, 0>>, address |-> <<>>, ext |-> <<>>, hit |-> FALSE,
     result |-> NoLocation, after |-> {}]

NoShared(answers) ==
    [caches |-> [i \in Instances |-> <<>>], answers |-> answers,
     threads |-> [t \in Threads |-> IdleThread]]

SharedIdle == shared = NoShared(<<>>)

SharedInit == shared \in {NoShared(answers) : answers \in SharedAnswers}

SharedStep(t, thread, caches) ==
    shared' = [shared EXCEPT !.threads[t] = thread, !.caches = caches]

\* the threads that have returned
ReturnedThreads == {t \in Threads : shared.threads[t].pc = "done"}

\* lines 90-107: the search query and the look in the cache of the instance
GeoStart(t, inst, name, context) ==
    /\ shared.threads[t].pc = "idle"
    /\ \E query \in {QueryOf[name, context]} :
        SharedStep(t,
            IF query \in DOMAIN shared.caches[inst]
            THEN [IdleThread EXCEPT
                    !.pc = "done", !.inst = inst, !.name = name,
                    !.context = context, !.query = query, !.hit = TRUE,
                    !.result = Located(ExpandedName[name],
                                       shared.caches[inst][query], query),
                    !.after = ReturnedThreads]
            ELSE [IdleThread EXCEPT
                    !.pc = "geocode", !.inst = inst, !.name = name,
                    !.context = context, !.query = query, !.after = ReturnedThreads],
            shared.caches)
    /\ UNCHANGED <<geo_vars, authors_vars, doc_vars, bulk_last, extract_vars,
                   search_last, route_last, helper, geocoded_last>>

\* what a thread does with the answer to its query: lines 120-128 for a
\* location, lines 160-165 for an exception, lines 148-158 for no location
Answered(thread, query, outcome, may_retry) ==
    IF Raises(outcome)
    THEN [thread EXCEPT !.pc = "done", !.ext = Append(@, query), !.query = query]
    ELSE IF outcome.kind = "found"
    THEN [thread EXCEPT !.pc = "store", !.ext = Append(@, query), !.query = query,
                        !.coords = outcome.coords,
                        !.address = DisplayName(query, outcome.full)]
    ELSE IF may_retry
    THEN [thread EXCEPT !.pc = "retry", !.ext = Append(@, query)]
    ELSE IF FallbackOf[thread.name] # 0
    THEN [thread EXCEPT !.pc = "store", !.ext = Append(@, query), !.query = query,
                        !.coords = FallbackCoords[FallbackOf[thread.name]].coords,
                        !.address = ExpandedName[thread.name]]
    ELSE [thread EXCEPT !.pc = "done", !.ext = Append(@, query), !.query = query]

\* line 112: self.geocoder.geocode(search_query, timeout=10)
GeoAsk(t) ==
    /\ shared.threads[t].pc = "geocode"
    /\ SharedStep(t, Answered(shared.threads[t], shared.threads[t].query,
                              shared.answers[shared.threads[t].query],
                              Truthy(shared.threads[t].context)),
                  shared.caches)
    /\ UNCHANGED <<geo_vars, authors_vars, doc_vars, bulk_last, extract_vars,
                   search_last, route_last, helper, geocoded_last>>

\* lines 115-118: the retry with the bare name, which becomes the cache key
GeoRetry(t) ==
    /\ shared.threads[t].pc = "retry"
    /\ SharedStep(t, Answered(shared.threads[t],
                              ExpandedName[shared.threads[t].name],
                              shared.answers[ExpandedName[shared.threads[t].name]],
                              FALSE),
                  shared.caches)
    /\ UNCHANGED <<geo_vars, authors_vars, doc_vars, bulk_last, extract_vars,
                   search_last, route_last, helper, geocoded_last>>

\* lines 122 and 150: self.geocode_cache[search_query] = coords
GeoStore(t) ==
    /\ shared.threads[t].pc = "store"
    /\ SharedStep(t, [shared.threads[t] EXCEPT !.pc = "return"],
                  [shared.caches EXCEPT ![shared.threads[t].inst] =
                        (shared.threads[t].query :> shared.threads[t].coords) @@ @])
    /\ UNCHANGED <<geo_vars, authors_vars, doc_vars, bulk_last, extract_vars,
                   search_last, route_last, helper, geocoded_last>>

\* lines 123-128 and 151-156: the dict returned after the store
GeoReturn(t) ==
    /\ shared.threads[t].pc = "return"
    /\ SharedStep(t, [shared.threads[t] EXCEPT
                        !.pc = "done",
                        !.result = Located(ExpandedName[shared.threads[t].name],
                                           shared.threads[t].coords,
                                           shared.threads[t].address)],
                  shared.caches)
    /\ UNCHANGED <<geo_vars, authors_vars, doc_vars, bulk_last, extract_vars,
                   search_last, route_last, helper, geocoded_last>>

SharedNext ==
    \E t \in Threads :
        \/ \E inst \in Instances, name \in SharedNames, context \in GeoContexts :
              GeoStart(t, inst, name, context)
        \/ GeoAsk(t)
        \/ GeoRetry(t)
        \/ GeoStore(t)
        \/ GeoReturn(t)

\* the services outside the enrichment pipeline at rest
ServiceIdle == RouteIdle /\ HelperIdle /\ GeocodedIdle /\ SharedIdle

-----------------------------------------------------------------------------
(* Specifications: one per part of the pipeline *)

InitGeo == GeoInit /\ AuthorsIdle /\ DocIdle /\ BulkIdle
    /\ ExtractIdle /\ SearchIdle
    /\ ServiceIdle

SpecGeo == InitGeo /\ [][GeoNext]_vars

InitAuthors == AuthorsInit /\ GeoInit /\ DocIdle /\ BulkIdle
    /\ ExtractIdle /\ SearchIdle
    /\ ServiceIdle

SpecAuthors == InitAuthors /\ [][AuthorsNext]_vars

InitDoc == DocInit /\ GeoInit /\ AuthorsIdle /\ BulkIdle
    /\ ExtractIdle /\ SearchIdle
    /\ ServiceIdle

SpecDoc == InitDoc /\ [][DocNext]_vars

InitBulk == DocInit /\ GeoInit /\ AuthorsIdle /\ BulkIdle
    /\ ExtractIdle /\ SearchIdle
    /\ ServiceIdle

SpecBulk == InitBulk /\ [][BulkNext]_vars

InitIndex == DocInit /\ GeoInit /\ AuthorsIdle /\ BulkIdle
    /\ ExtractIdle /\ SearchIdle
    /\ ServiceIdle

SpecIndex == InitIndex /\ [][IndexNext]_vars

InitPlaces ==
    PlacesInit /\ TemporalIdle /\ SearchIdle /\ GeoInit /\ AuthorsIdle /\ DocIdle
    /\ BulkIdle
    /\ ServiceIdle

SpecPlaces == InitPlaces /\ [][PlacesNext]_vars

InitTemporal ==
    TemporalInit /\ PlacesIdle /\ SearchIdle /\ GeoInit /\ AuthorsIdle /\ DocIdle
    /\ BulkIdle
    /\ ServiceIdle

SpecTemporal == InitTemporal /\ [][TemporalNext]_vars

InitSearch ==
    DocInit /\ GeoInit /\ AuthorsIdle /\ BulkIdle /\ ExtractIdle /\ SearchIdle
    /\ ServiceIdle

SpecSearch == InitSearch /\ [][SearchNext]_vars

InitRoutes ==
    DocInit /\ GeoInit /\ AuthorsIdle /\ BulkIdle /\ ExtractIdle /\ SearchIdle
    /\ ServiceIdle

SpecRoutes == InitRoutes /\ [][RoutesNext]_vars

InitHelper ==
    embedding_model = FALSE /\ doc_last = NoDoc /\ GeoInit /\ AuthorsIdle /\ BulkIdle
    /\ ExtractIdle /\ SearchIdle /\ ServiceIdle

SpecHelper == InitHelper /\ [][HelperNext]_vars

InitGeocoded ==
    DocInit /\ GeoInit /\ AuthorsIdle /\ BulkIdle /\ ExtractIdle /\ SearchIdle
    /\ ServiceIdle

SpecGeocoded == InitGeocoded /\ [][GeocodedNext]_vars

InitShared ==
    DocIdle /\ GeoInit /\ AuthorsIdle /\ BulkIdle /\ ExtractIdle /\ SearchIdle
    /\ RouteIdle /\ HelperIdle /\ GeocodedIdle /\ SharedInit

SpecShared == InitShared /\ [][SharedNext]_vars

-----------------------------------------------------------------------------
(* Properties of geocode_location *)

\* C1: a second geocode(name, context) on the same resolver is answered from
\* the cache and sends no query to the external geocoder, whatever the
\* geocoder did on the first call.
C1_SecondCallFromCache ==
    geo_last.repeat => (geo_last.hit /\ geo_last.ext = <<>>)

\* C2: two successive calls geocode(name, context) on the same resolver
\* return identical results (found or not, name, lat, lon, formattedAddress).
C2_SameResultTwice ==
    geo_last.repeat => geo_last.result = geo_last.previous

\* C3: when the geocoder raises a timeout or a service error, the static city
\* table is consulted: a table city that is a case-insensitive substring of
\* the name gives that city's coordinates; otherwise the not-found marker is
\* stored in the cache under the search key and not-found is returned.
C3_FallbackOnGeocoderError ==
    geo_last.raised \in {"timeout", "service_error"} =>
        LET location_name == ExpandedName[geo_last.name]
            matches == FallbackMatches(location_name)
        IN  IF matches # {}
            THEN /\ geo_last.result.found
                 /\ \E i \in matches :
                        <<geo_last.result.lat, geo_last.result.lon>>
                            = FallbackCoords[i].coords
            ELSE /\ ~geo_last.result.found
                 /\ QueryOf[geo_last.name, geo_last.context] \in DOMAIN geocode_cache

-----------------------------------------------------------------------------
(* Properties of _parse_authors *)

\* the authors of an input, as a list
InputAuthors(authors_data) ==
    IF authors_data.kind = "str" /\ Truthy(authors_data.text)
    THEN <<AuthorStr(authors_data.text)>>
    ELSE authors_data.items

HasWhitespace(s) == \E i \in 1..Len(s) : s[i] \in Whitespace

\* C10: no authors (or an empty value) gives the empty sequence; every input
\* author gives exactly one output author, in input order; "First Last...
\* <email>" gives firstName = first token, lastName = the remaining tokens
\* joined by a space, email = the bracketed part, a missing part being "".
C10_AuthorNormalization ==
    authors_out.done =>
        LET in == InputAuthors(authors_in)
            out == authors_out.authors
        IN  /\ Len(out) = Len(in)
            /\ \A i \in 1..Len(in) :
                /\ in[i].kind = "dict" =>
                    /\ out[i].first_name =
                         (IF "first_name" \in in[i].keys THEN in[i].first_name ELSE <<>>)
                    /\ out[i].last_name =
                         (IF "last_name" \in in[i].keys THEN in[i].last_name ELSE <<>>)
                    /\ out[i].email =
                         (IF "email" \in in[i].keys THEN in[i].email ELSE <<>>)
                /\ in[i].kind = "str" =>
                    /\ \A t \in TokenLists, e \in Emails :
                        in[i].text = FormatAuthor(t, e) =>
                            out[i] = [first_name |-> t[1],
                                      last_name |-> JoinSpace(Tail(t)),
                                      email |-> e]
                    /\ ~HasWhitespace(out[i].first_name)
                    /\ out[i].last_name = Strip(out[i].last_name)
                    /\ (\A k \in 1..Len(in[i].text) : in[i].text[k] # "<")
                          => out[i].email = <<>>

\* "Jane Smith <j@x.com>" and "Madonna" in one list, both normalized
C10_Witness ==
    /\ authors_out.done
    /\ authors_in.kind = "list"
    /\ Len(authors_in.items) = 2
    /\ authors_in.items[1].text =
         FormatAuthor(<<<<"J","a","n","e">>, <<"S","m","i","t","h">>>>,
                      <<"j","@","x",".","c","o","m">>)
    /\ authors_in.items[2].text = <<"M","a","d","o","n","n","a">>
    /\ authors_out.authors[1].last_name = <<"S","m","i","t","h">>
    /\ authors_out.authors[2].last_name = <<>>

-----------------------------------------------------------------------------
(* Properties of process_document *)

\* process_document returned a record
Returned == doc_last.called /\ doc_last.out.raised = ""

\* the dates the text extraction finds in the document
TextDates(doc) == TemporalExtract(doc.ents).parsed_dates

\* C6: the date of the record is the supplied date if there is one; otherwise
\* the metadata date if there is one; otherwise the latest date parsed from
\* the text; otherwise the current time.  A document with no supplied date, a
\* metadata date that does not parse and parseable dates in its text does not
\* get the current time.
C6_DatePriority ==
    Returned =>
        LET doc == doc_last.doc
            date == doc_last.out.record.date
        IN  IF doc.date.kind = "str" THEN date = doc.date
            ELSE IF doc.date.kind = "datetime" THEN date = Strftime(doc.date.t)
            ELSE IF Truthy(doc.metadata.reuters_date)
            THEN IF Parseable(doc.metadata.reuters_date)
                 THEN date = Strftime(DateParserTable[doc.metadata.reuters_date])
                 ELSE Truthy(TextDates(doc)) => date # Strftime(Now)
            ELSE IF Truthy(TextDates(doc))
            THEN date = Strftime(MaxOf(TextDates(doc)))
            ELSE date = Strftime(Now)

\* the positions of the geocoding results that are locations
FoundAt(results) == {i \in 1..Len(results) : results[i].found}

FirstFoundAt(results) ==
    CHOOSE i \in FoundAt(results) : \A j \in FoundAt(results) : i <= j

\* C7: the geopoint of the record is the supplied geopoint when there is one;
\* otherwise the lat/lon of the first place that geocoded; otherwise the
\* record has no geopoint field.
C7_GeopointPriority ==
    Returned =>
        LET doc == doc_last.doc
            record == doc_last.out.record
            results == doc_last.out.results
        IN  IF doc.geopoint.present
            THEN "geopoint" \in record.fields /\ record.geopoint = doc.geopoint
            ELSE IF FoundAt(results) # {}
            THEN /\ "geopoint" \in record.fields
                 /\ record.geopoint =
                        Geopoint(results[FirstFoundAt(results)].lat,
                                 results[FirstFoundAt(results)].lon)
            ELSE "geopoint" \notin record.fields

\* a record whose geopoint comes from the second place: the first one failed
C7_Witness ==
    /\ Returned
    /\ ~doc_last.doc.geopoint.present
    /\ Len(doc_last.out.results) >= 2
    /\ ~doc_last.out.results[1].found
    /\ doc_last.out.results[2].found
    /\ "geopoint" \in doc_last.out.record.fields

Steps(calls) == {calls[i] : i \in 1..Len(calls)}

MinOf(a, b) == IF a < b THEN a ELSE b

\* C8: with places in the metadata, georeferences is that list as given, the
\* place extraction over the text is not run and the places sent to geocoding
\* are the first 5 at most; with a date in the metadata, temporal_expressions
\* is the one-element list of that date.  Without them the output of the
\* text extraction is used.
C8_MetadataFirst ==
    Returned =>
        LET doc == doc_last.doc
            out == doc_last.out
        IN  /\ IF Truthy(doc.metadata.reuters_places)
               THEN /\ out.record.georeferences = doc.metadata.reuters_places
                    /\ "places" \notin Steps(out.tagger)
                    /\ out.sent = SubSeq(doc.metadata.reuters_places, 1,
                                         MinOf(5, Len(doc.metadata.reuters_places)))
                    /\ Len(out.results) = Len(out.sent)
               ELSE /\ out.record.georeferences = doc_last.text_georeferences
                    /\ "places" \in Steps(out.tagger)
            /\ IF Truthy(doc.metadata.reuters_date)
               THEN /\ out.record.temporal_expressions = <<doc.metadata.reuters_date>>
                    /\ "temporal" \notin Steps(out.tagger)
               ELSE /\ out.record.temporal_expressions =
                            TemporalExtract(doc.ents).temporal_expressions
                    /\ "temporal" \in Steps(out.tagger)

\* a record made from metadata with a date and more than 5 places
C8_Witness ==
    /\ Returned
    /\ Truthy(doc_last.doc.metadata.reuters_date)
    /\ Len(doc_last.doc.metadata.reuters_places) > 5
    /\ Len(doc_last.out.record.georeferences) > 5
    /\ Len(doc_last.out.sent) = 5

\* C9: a returned record has a content_vector exactly when its content, the
\* input content with the HTML removed, is not empty.
C9_VectorIffContent ==
    Returned =>
        /\ doc_last.out.record.content = CleanHtml(doc_last.doc.content)
        /\ ("content_vector" \in doc_last.out.record.fields)
              <=> (doc_last.out.record.content # <<>>)

\* records with the markup-only content and with text inside the markup
C9_WitnessEmpty ==
    /\ Returned
    /\ doc_last.doc.content # <<>>
    /\ doc_last.out.record.content = <<>>
    /\ "content_vector" \notin doc_last.out.record.fields

C9_Witness ==
    /\ Returned
    /\ doc_last.out.record.content = <<"x">>
    /\ "content_vector" \in doc_last.out.record.fields

-----------------------------------------------------------------------------
(* Properties of bulk indexing *)

\* process_document raises on the document: null metadata (line 153), or
\* content to embed while the embedding model is not loaded (line 240)
FailsEnrichment(item) ==
    \/ item.doc.metadata.null
    \/ CleanHtml(item.doc.content) # <<>> /\ ~embedding_model

RECURSIVE Survivors(_)
Survivors(documents) ==
    IF documents = <<>> THEN <<>>
    ELSE (IF FailsEnrichment(Head(documents)) THEN <<>> ELSE <<Head(documents)>>)
         \o Survivors(Tail(documents))

\* the action is the one made from the item
ActionOf(action, item) ==
    /\ action._index = index_name
    /\ action.has_id = item.has_id
    /\ item.has_id => action._id = item.id
    /\ action._source.title = item.doc.title
    /\ action._source.content = CleanHtml(item.doc.content)
    /\ action._source.georeferences = item.doc.metadata.reuters_places

\* the actions are those of the items: one each, in the same order
ActionsOf(actions, items) ==
    /\ Len(actions) = Len(items)
    /\ \A i \in 1..Len(items) : ActionOf(actions[i], items[i])

\* C4: a batch of N documents of which k raise during enrichment does not
\* make index_documents_bulk raise: the other N-k are submitted to the
\* backend and, the backend accepting them, the report is success = N-k,
\* failed = k, total = N.
C4_BulkSkipsFailedDocuments ==
    (bulk_last.called /\ bulk_last.op = "bulk"
        /\ bulk_last.out.raised # "BulkIndexError") =>
        LET documents == bulk_last.documents
            out == bulk_last.out
        IN  /\ out.raised = ""
            /\ Len(out.calls) = 1
            /\ ActionsOf(out.calls[1], Survivors(documents))
            /\ out.report = Report(Len(Survivors(documents)),
                                   Len(documents) - Len(Survivors(documents)),
                                   Len(documents))

\* the documents of the .json entries of a directory, file by file
RECURSIVE JsonFiles(_)
JsonFiles(entries) ==
    IF entries = <<>> THEN <<>>
    ELSE (IF Head(entries).json THEN <<Head(entries).content.documents>> ELSE <<>>)
         \o JsonFiles(Tail(entries))

RECURSIVE SumLen(_)
SumLen(lists) == IF lists = <<>> THEN 0 ELSE Len(Head(lists)) + SumLen(Tail(lists))

\* the document lists a call hands to index_documents_bulk
Inputs(call) ==
    IF call.op = "directory" THEN JsonFiles(call.entries) ELSE <<call.documents>>

\* C5: every report returned by bulk indexing has success + failed = total =
\* the number of documents handed in, whatever the backend accepts, and every
\* list of actions submitted to the backend holds one action per document of
\* the input, in input order.
C5_ReportAndOrder ==
    bulk_last.called =>
        LET out == bulk_last.out
            inputs == Inputs(bulk_last)
        IN  /\ out.raised = "" =>
                  /\ out.report.success + out.report.failed = out.report.total
                  /\ out.report.total = SumLen(inputs)
                  /\ Len(out.calls) = Len(inputs)
            /\ Len(out.calls) <= Len(inputs)
            /\ \A j \in 1..Len(out.calls) : ActionsOf(out.calls[j], inputs[j])

\* a report for a batch of three different documents
C5_Witness ==
    /\ bulk_last.called
    /\ bulk_last.op = "bulk"
    /\ bulk_last.documents = <<ItemPlace, ItemText, ItemPlain>>
    /\ bulk_last.out.raised = ""
    /\ bulk_last.out.report = Report(3, 0, 3)
    /\ Len(bulk_last.out.calls[1]) = 3

\* a report for a directory of two files, and a submission the backend
\* rejects part of
C5_WitnessDirectory ==
    /\ bulk_last.called
    /\ bulk_last.op = "directory"
    /\ Len(bulk_last.out.calls) = 2
    /\ bulk_last.out.raised = ""
    /\ bulk_last.out.report.total = 3

C5_WitnessRejected ==
    /\ bulk_last.called
    /\ bulk_last.out.raised = "BulkIndexError"
    /\ Len(bulk_last.out.calls[1]) = 2
    /\ Len(bulk_last.out.written) = 1

-----------------------------------------------------------------------------
(* Properties of process_document: errors *)

\* C11: process_document raises only a ValidationError, and only when the
\* title and the content with the HTML removed are both empty; every other
\* document, a null metadata included, gets a record.
C11_RaisesOnlyValidationError ==
    (doc_last.called /\ doc_last.out.raised # "") =>
        /\ doc_last.out.raised = "ValidationError"
        /\ doc_last.doc.title = <<>>
        /\ CleanHtml(doc_last.doc.content) = <<>>

-----------------------------------------------------------------------------
(* Properties of extract_georeferences *)

PlaceLabels == {"GPE", "LOC", "FAC"}

\* where the name is first tagged as a place in the text
FirstSeen(ents, name) ==
    CHOOSE k \in 1..Len(ents) :
        /\ ents[k].text = name /\ ents[k].label \in PlaceLabels
        /\ \A j \in 1..(k - 1) : ~(ents[j].text = name /\ ents[j].label \in PlaceLabels)

NoDuplicates(xs) == \A i, j \in 1..Len(xs) : i # j => xs[i] # xs[j]

LongestFirst(xs) == \A i, j \in 1..Len(xs) : i < j => Len(xs[i]) >= Len(xs[j])

\* C12: the places extracted from a text have no duplicates, never hold
\* "Untitled", come longest first, and names of equal length come in the
\* order they are first seen in the text.
C12_PlacesOrdered ==
    places_out.done =>
        LET g == places_out.georeferences IN
        /\ NoDuplicates(g)
        /\ \A i \in 1..Len(g) : g[i] # UntitledPlace
        /\ LongestFirst(g)
        /\ \A i, j \in 1..Len(g) :
              (i < j /\ Len(g[i]) = Len(g[j])) =>
                  FirstSeen(places_in.ents, g[i]) < FirstSeen(places_in.ents, g[j])

-----------------------------------------------------------------------------
(* Properties of extract_temporal_expressions *)

\* the spans found in the text: those the tagger labels DATE or TIME, or,
\* with no tagger loaded, the matches of the date pattern
SpanTexts(text) ==
    IF text.spacy
    THEN [k \in {i \in 1..Len(text.ents) : text.ents[i].label \in {"DATE", "TIME"}}
            |-> text.ents[k].text]
    ELSE text.matches

FirstSpan(spans, expr) ==
    CHOOSE k \in DOMAIN spans :
        spans[k] = expr /\ \A j \in DOMAIN spans : spans[j] = expr => k <= j

ParseableAt(exprs) == {i \in 1..Len(exprs) : Parseable(exprs[i])}

-----------------------------------------------------------------------------
(* Properties of the compiled query: the temporal expression *)

\* search compiled a query and sent it
Compiled == search_last.called /\ search_last.raised = ""

\* the hard filters of the lexical query
LexicalFilter == search_last.body.function_score.query.filter

\* what dateparser reads in the temporal expression of the request
Reading ==
    IF Truthy(search_last.request.temporal_expression)
    THEN SearchDateTable[search_last.request.temporal_expression]
    ELSE Unparsed

\* C14: a temporal expression that names only a month and a year, whatever
\* the month and the year, compiles to a date range from day 1, 00:00:00 of
\* that month through its last day, 23:59:59, on whatever day the query is
\* compiled; "February 1987" gives 1987-02-01T00:00:00 to 1987-02-28T23:59:59.
C14_MonthYearCoversMonth ==
    (Compiled /\ Reading.kind = "monthyear") =>
        /\ "filter" \in search_last.body.function_score.query.keys
        /\ LexicalFilter[1] =
              RangeClause({"gte", "lte"},
                  Isoformat(Datetime(Reading.year, Reading.month, 1, 0, 0, 0)),
                  Isoformat(Datetime(Reading.year, Reading.month,
                                     DaysInMonth(Reading.year, Reading.month),
                                     23, 59, 59)))
        /\ search_last.request.temporal_expression = February1987 =>
              /\ LexicalFilter[1].gte = <<"1","9","8","7","-","0","2","-","0","1","T","0","0",":","0","0",":","0","0">>
              /\ LexicalFilter[1].lte = <<"1","9","8","7","-","0","2","-","2","8","T","2","3",":","5","9",":","5","9">>

\* C15: a temporal expression that names a day, in whatever format and of
\* whatever length, compiles to a date range covering that day, 00:00:00
\* through 23:59:59.
C15_DayCoversDay ==
    (Compiled /\ Reading.kind = "date") =>
        /\ "filter" \in search_last.body.function_score.query.keys
        /\ LexicalFilter[1] =
              RangeClause({"gte", "lte"},
                  Isoformat(Datetime(Reading.year, Reading.month, Reading.day, 0, 0, 0)),
                  Isoformat(Datetime(Reading.year, Reading.month, Reading.day,
                                     23, 59, 59)))

-----------------------------------------------------------------------------
(* Properties of the compiled query: the filters *)

\* the positions of the filter clauses of a kind
ClausesAt(clauses, kind) == {i \in 1..Len(clauses) : clauses[i].kind = kind}

\* the number of the filter inputs of the request that are supplied
Supplied(request) ==
    (IF Truthy(request.temporal_expression) THEN 1 ELSE 0)
    + (IF Truthy(request.georeference) THEN 1 ELSE 0)
    + (IF Truthy(request.date_from) \/ Truthy(request.date_to) THEN 1 ELSE 0)
    + (IF request.location.present THEN 1 ELSE 0)

\* C16: every filter input that is supplied has its own clause in the filter
\* list: the temporal expression a date range when it parses and a text
\* filter over temporal_expressions, title and content when it does not, the
\* georeference, the explicit date range (a clause of its own beside the
\* range of the temporal expression) and the location; with no filter input
\* the query has no filter list.
C16_NoFilterDropped ==
    Compiled =>
        LET request == search_last.request
            clauses == LexicalFilter
            keys == search_last.body.function_score.query.keys
        IN  /\ ("filter" \in keys) <=> (Supplied(request) > 0)
            /\ Len(clauses) = Supplied(request)
            /\ (Truthy(request.temporal_expression) /\ Reading.kind # "none") =>
                  \E i \in ClausesAt(clauses, "range") :
                      /\ clauses[i].keys = {"gte", "lte"}
                      /\ clauses[i].gte # request.date_from
                      /\ clauses[i].lte # request.date_to
            /\ (Truthy(request.temporal_expression) /\ Reading.kind = "none") =>
                  \E i \in ClausesAt(clauses, "multi_match") :
                      /\ clauses[i].query = request.temporal_expression
                      /\ clauses[i].fields = <<"temporal_expressions", "title", "content">>
            /\ Truthy(request.georeference) =>
                  \E i \in ClausesAt(clauses, "match") :
                      /\ clauses[i].field = "georeferences"
                      /\ clauses[i].query = request.georeference
            /\ (Truthy(request.date_from) \/ Truthy(request.date_to)) =>
                  \E i \in ClausesAt(clauses, "range") :
                      /\ clauses[i].field = "date"
                      /\ ("gte" \in clauses[i].keys) <=> Truthy(request.date_from)
                      /\ ("lte" \in clauses[i].keys) <=> Truthy(request.date_to)
                      /\ clauses[i].gte = request.date_from
                      /\ clauses[i].lte = request.date_to
            /\ request.location.present =>
                  \E i \in ClausesAt(clauses, "geo_distance") :
                      /\ clauses[i].lat = request.location.lat
                      /\ clauses[i].lon = request.location.lon
                      /\ clauses[i].distance = request.distance

\* a query with every filter input, the temporal expression parsing
C16_Witness ==
    /\ Compiled
    /\ Reading.kind # "none"
    /\ Truthy(search_last.request.georeference)
    /\ Truthy(search_last.request.date_from)
    /\ search_last.request.location.present
    /\ Len(LexicalFilter) = 4
    /\ Cardinality(ClausesAt(LexicalFilter, "range")) = 2

\* queries with a temporal expression that does not parse, and with no filter
C16_WitnessText ==
    /\ Compiled
    /\ search_last.request.temporal_expression = Soon
    /\ Cardinality(ClausesAt(LexicalFilter, "multi_match")) = 1

C16_WitnessNone ==
    /\ Compiled
    /\ Supplied(search_last.request) = 0
    /\ "filter" \notin search_last.body.function_score.query.keys

-----------------------------------------------------------------------------
(* Properties of the compiled query: scoring *)

\* C17: a search with an empty query and any semantic weight compiles to a
\* query with no kNN clause without calling the embedding helper, and with
\* the match_all clause; every compiled query has the recency decay on the
\* date, centred on now, added to the score.
C17_EmptyQueryAndRecency ==
    /\ (search_last.called /\ ~Truthy(search_last.request.query)) =>
          /\ search_last.raised = ""
          /\ search_last.encoded = <<>>
          /\ "knn" \notin search_last.body.keys
          /\ "must" \in search_last.body.function_score.query.keys
          /\ search_last.body.function_score.query.must = <<MatchAllClause>>
    /\ Compiled =>
          LET fs == search_last.body.function_score IN
          /\ "query" \in search_last.body.keys
          /\ Len(fs.functions) = 1
          /\ fs.functions[1].kind = "gauss"
          /\ fs.functions[1].field = "date"
          /\ fs.functions[1].origin = Isoformat(search_last.today)
          /\ fs.boost_mode = "sum"
          /\ fs.score_mode = "sum"

\* an empty query with semantic weight 0.7, the embedding model not loaded
C17_Witness ==
    /\ Compiled
    /\ search_last.request.query = <<>>
    /\ search_last.request.semantic_weight = 7
    /\ ~embedding_model
    /\ "knn" \notin search_last.body.keys
    /\ Len(search_last.body.function_score.functions) = 1

\* C18: the compiled query has a kNN clause exactly when the query text is
\* not empty and the semantic weight is above 0; the clause then carries the
\* filter clauses of the lexical query, and no filter when that has none;
\* the boost of the lexical query is 1 - semantic_weight.
C18_KnnIffTextAndWeight ==
    Compiled =>
        LET request == search_last.request
            lexical == search_last.body.function_score.query
            knn == search_last.body.knn
        IN  /\ ("knn" \in search_last.body.keys)
                  <=> (request.query # <<>> /\ request.semantic_weight > 0)
            /\ "knn" \in search_last.body.keys =>
                  /\ ("filter" \in knn.keys) <=> ("filter" \in lexical.keys)
                  /\ knn.filter = lexical.filter
            /\ "boost" \in lexical.keys
            /\ lexical.boost = 10 - request.semantic_weight

\* a kNN clause with three filters
C18_Witness ==
    /\ Compiled
    /\ "knn" \in search_last.body.keys
    /\ Len(search_last.body.knn.filter) = 3
    /\ search_last.request.semantic_weight = 7
    /\ search_last.body.function_score.query.boost = 3

\* text with semantic weight 0: no kNN clause
C18_WitnessNoWeight ==
    /\ Compiled
    /\ search_last.request.query # <<>>
    /\ search_last.request.semantic_weight = 0
    /\ "knn" \notin search_last.body.keys

-----------------------------------------------------------------------------
(* Properties of the normalized scores *)

IsOne(q) == q.den # 0 /\ q.num = q.den

InUnit(q) == q.den > 0 /\ 0 <= q.num /\ q.num <= q.den

\* C19: in every result list that is not empty, with or without a location,
\* the first result has the normalized score 1.0 and every result a score
\* in [0,1]; an empty list is returned without a division by zero.
C19_TopScoreIsOne ==
    Compiled =>
        /\ Len(search_last.results) = Len(search_last.response.hits)
        /\ \A i \in 1..Len(search_last.results) : InUnit(search_last.results[i].score)
        /\ search_last.results # <<>> => IsOne(search_last.results[1].score)

\* the raw score of the best hit
TopRaw == search_last.response.hits[1].score

\* more than one hit has the top raw score
TiedTop ==
    Cardinality({i \in 1..Len(search_last.response.hits) :
                    search_last.response.hits[i].score = TopRaw}) > 1

\* C20 as stated: each raw score is divided by the raw score of the top
\* result; with a tie, a top score of 0 or no top score every result gets 0,
\* and nothing is divided by zero.
C20_TiesAndZeroGiveZero ==
    Compiled =>
        \A i \in 1..Len(search_last.results) :
            /\ search_last.results[i].score.den # 0
            /\ search_last.results[i].score =
                  IF TiedTop \/ TopRaw = 0 \/ ~search_last.response.max_score.present
                  THEN ZeroScore
                  ELSE Quotient(search_last.response.hits[i].score, TopRaw)

\* C20 amended: each raw score is divided by the top score the backend
\* reports; when that is 0 or missing every result gets 0 and nothing is
\* divided by zero; hits tied at a positive top score all get 1.0.
C20_ZeroTopGivesZero ==
    Compiled =>
        LET reported == search_last.response.max_score IN
        \A i \in 1..Len(search_last.results) :
            /\ search_last.results[i].score.den > 0
            /\ IF reported.present /\ reported.v > 0
               THEN /\ search_last.results[i].score.num
                          = search_last.response.hits[i].score
                    /\ search_last.results[i].score.den = reported.v
                    /\ search_last.response.hits[i].score = reported.v
                          => IsOne(search_last.results[i].score)
               ELSE search_last.results[i].score.num = 0

\* two hits tied at a positive top score, and hits with a top score of 0
C20_Witness ==
    /\ Compiled
    /\ Len(search_last.results) = 2
    /\ TiedTop
    /\ TopRaw > 0
    /\ search_last.response.max_score.present
    /\ IsOne(search_last.results[1].score)
    /\ IsOne(search_last.results[2].score)

C20_WitnessZero ==
    /\ Compiled
    /\ Len(search_last.results) = 2
    /\ search_last.response.max_score = MaxScore(0)
    /\ search_last.results[1].score = ZeroScore

-----------------------------------------------------------------------------
(* Properties of the results: order, sort and distance *)

\* C22: search returns one result per hit, in the order the backend returned
\* the hits, none dropped, duplicated or reordered; the compiled query has a
\* sort clause ("_score" first, then ascending distance from the location)
\* exactly when a location is supplied, and exactly then every result carries
\* a distance, the one the backend reported for its hit.
C22_BackendOrderKept ==
    Compiled =>
        /\ Len(search_last.results) = Len(search_last.response.hits)
        /\ \A i \in 1..Len(search_last.results) :
            /\ search_last.results[i].id = search_last.response.hits[i].id
            /\ "distance_km" \in search_last.results[i].keys
                  <=> search_last.request.location.present
            /\ search_last.request.location.present
                  => search_last.results[i].distance_km
                        = search_last.response.hits[i].distance
        /\ "sort" \in search_last.body.keys <=> search_last.request.location.present
        /\ search_last.request.location.present
              => search_last.body.sort =
                    [first |-> "_score", geopoint |-> search_last.request.location,
                     order |-> "asc", unit |-> "km"]
        /\ ~search_last.request.location.present => search_last.body.sort = NoSort

\* a search with a location answered with three hits
C22_Witness ==
    /\ Compiled
    /\ search_last.request.location.present
    /\ Len(search_last.results) = 3
    /\ search_last.results[3].id = 3
    /\ "distance_km" \in search_last.results[3].keys

C22_WitnessNoLocation ==
    /\ Compiled
    /\ ~search_last.request.location.present
    /\ Len(search_last.results) = 3
    /\ "sort" \notin search_last.body.keys

-----------------------------------------------------------------------------
(* Properties of the HTTP handlers *)

\* C21: a search request whose size is 0 or negative is rejected as invalid:
\* the request fails, and fails before a query is sent to the index backend
\* and before a text is sent to the embedding service.
C21_NonPositiveSizeRejected ==
    (/\ route_last.called
     /\ route_last.route = "search"
     /\ RouteRequest(route_last.data).size <= 0)
    => /\ route_last.status # 200
       /\ route_last.sent = 0
       /\ route_last.encoded = <<>>

\* C23: the get-document endpoint answers 200 with the record when the id
\* exists, 404 only when the document is not found, and 500 when the index
\* backend fails; a backend failure is never answered with 404.
C23_DocumentStatus ==
    (route_last.called /\ route_last.route = "document")
    => /\ (route_last.backend = "up" /\ route_last.exists)
            => route_last.status = 200 /\ route_last.results = <<1>>
       /\ (route_last.backend = "up" /\ ~route_last.exists)
            => route_last.status = 404
       /\ route_last.backend # "up" => route_last.status = 500
       /\ route_last.status = 404
            => route_last.backend = "up" /\ ~route_last.exists

\* the index backend or the embedding service failed while the request was
\* served
ServiceFailed ==
    \/ route_last.sent > 0 /\ BackendRaises(route_last.backend) # ""
    \/ route_last.encoded # <<>> /\ ~embedding_model

\* C24: when the index backend or the embedding service fails during a
\* search, autocomplete or analytics request, the endpoint answers with an
\* empty result set and an error payload, and no exception leaves the
\* handler.
C24_FailureGivesErrorPayload ==
    (/\ route_last.called
     /\ route_last.route \in {"search", "autocomplete"} \cup AnalyticsEndpoints
     /\ ServiceFailed)
    => /\ route_last.unhandled = ""
       /\ route_last.json
       /\ route_last.results = <<>>
       /\ route_last.error # ""

-----------------------------------------------------------------------------
(* Properties of the embedding handle *)

\* thread t holds a handle that a construction returned to it
HoldsHandle(t) == helper.threads[t].handle # 0

\* thread t is between the creation of the instance and the assignment of
\* _model
Constructing(t) == helper.threads[t].pc \in {"load", "assign"}

\* C25: when the embedding model fails to load, construction fails: no
\* caller ever holds a constructed handle whose model is missing once every
\* construction has run to its end, so the failure is not left for the first
\* encode to report.
C25_LoadFailureIsFatal ==
    \A t \in Threads :
        (HoldsHandle(t) /\ \A u \in Threads : ~Constructing(u))
        => /\ embedding_model
           /\ helper.threads[t].observed # "RuntimeError"

\* C29: constructing the handle any number of times, one after the other or
\* from concurrent threads, loads the model at most once and returns the same
\* handle to every caller; no caller holds a handle while another
\* construction is still replacing the model.
C29_OneLoadOneHandle ==
    /\ helper.loads <= 1
    /\ Cardinality(helper.returned) <= 1
    /\ \A t, u \in Threads : t # u /\ HoldsHandle(t) => ~Constructing(u)

\* C29 for constructions that do not overlap
C29_Sequential ==
    (\A t, u \in Threads :
        t # u => helper.threads[t].calls = 0 \/ helper.threads[u].calls = 0)
    => C29_OneLoadOneHandle

-----------------------------------------------------------------------------
(* Properties of extract_and_geocode: geocoder failures *)

\* the geocoder raised during the call made for the place: at the first
\* query, or at the retry with the bare name after an empty answer
RaisedFor(place, context, cache_before, oracle) ==
    /\ QueryOf[place, context] \notin DOMAIN cache_before
    /\ \/ Raises(oracle[QueryOf[place, context]])
       \/ /\ oracle[QueryOf[place, context]].kind = "none"
          /\ Truthy(context)
          /\ Raises(oracle[ExpandedName[place]])

FoundIndexes(results) == {i \in 1..Len(results) : results[i].found}

\* locations holds exactly the results that are found, in their order
ResolvedInOrder(locations, results) ==
    /\ Len(locations) = Cardinality(FoundIndexes(results))
    /\ \A i \in FoundIndexes(results) :
        locations[Cardinality({j \in FoundIndexes(results) : j <= i})] = results[i]

\* the i-th result is the answer for the i-th place
AnswersPlaces(places, results) ==
    /\ Len(results) = Len(places)
    /\ \A i \in 1..Len(results) :
        results[i].found => results[i].name = ExpandedName[places[i]]

\* the places process_document geocodes
DocPlaces ==
    IF Truthy(doc_last.doc.metadata.reuters_places)
    THEN FirstPlaces(doc_last.doc.metadata.reuters_places)
    ELSE doc_last.text_georeferences

C26_WitnessDocument ==
    /\ doc_last.called
    /\ doc_last.out.raised = ""
    /\ Len(doc_last.out.results) >= 2
    /\ ~doc_last.out.results[1].found
    /\ doc_last.out.results[2].found
    /\ Len(doc_last.out.record.extracted_locations) >= 1

-----------------------------------------------------------------------------
(* Properties of indexing: what reaches the backend *)

\* the documents handed to an indexing call, in one list
RECURSIVE Flatten(_)
Flatten(lists) ==
    IF lists = <<>> THEN <<>> ELSE Head(lists) \o Flatten(Tail(lists))

\* the record is the complete record of the item: every field that
\* process_document sets for it is there
FullyEnriched(action, item) ==
    /\ ActionOf(action, item)
    /\ action._source.date # NoDate
    /\ "content_vector" \in action._source.fields
          <=> CleanHtml(item.doc.content) # <<>>
    /\ "content_vector" \in action._source.fields
          => action._source.content_vector = CleanHtml(item.doc.content)

C27_WitnessSingleRaised ==
    /\ bulk_last.called
    /\ bulk_last.op = "index"
    /\ bulk_last.out.raised = "RuntimeError"
    /\ bulk_last.out.written = <<>>

C27_WitnessSingleWritten ==
    /\ bulk_last.called
    /\ bulk_last.op = "index"
    /\ bulk_last.documents = <<ItemText>>
    /\ Len(bulk_last.out.written) = 1

-----------------------------------------------------------------------------
(* Properties of the geocode cache under concurrent requests *)

\* t and u made the same request on the same GeoExtractor
SameRequest(t, u) ==
    /\ shared.threads[t].pc # "idle"
    /\ shared.threads[u].pc # "idle"
    /\ shared.threads[t].inst = shared.threads[u].inst
    /\ shared.threads[t].name = shared.threads[u].name
    /\ shared.threads[t].context = shared.threads[u].context

\* the two requests overlapped: neither began after the other had returned
Overlapped(t, u) ==
    /\ t # u
    /\ t \notin shared.threads[u].after
    /\ u \notin shared.threads[t].after

\* no entry of a cache is removed or changed by a step
EntriesKept ==
    \A i \in Instances :
        \A q \in DOMAIN shared.caches[i] :
            /\ q \in DOMAIN shared'.caches[i]
            /\ shared'.caches[i][q] = shared.caches[i][q]

\* t and u are overlapping requests for the same key, both have returned,
\* and the geocoder answered each of their queries without an exception
BothReturned(t, u) ==
    /\ Overlapped(t, u)
    /\ SameRequest(t, u)
    /\ shared.threads[t].pc = "done"
    /\ shared.threads[u].pc = "done"
    /\ \A v \in {t, u} :
          \A i \in 1..Len(shared.threads[v].ext) :
              ~Raises(shared.answers[shared.threads[v].ext[i]])

\* a request sends no query to the geocoder twice
CalledOnce ==
    \A t, u \in Threads :
        BothReturned(t, u) => NoDuplicates(shared.threads[t].ext)

\* overlapping requests for the same key return the same result
SameResult ==
    \A t, u \in Threads :
        BothReturned(t, u) => shared.threads[t].result = shared.threads[u].result

\* after overlapping requests for the same key the cache holds its entry
EntryCached ==
    \A t, u \in Threads :
        BothReturned(t, u)
        => QueryOf[shared.threads[t].name, shared.threads[t].context]
              \in DOMAIN shared.caches[shared.threads[t].inst]

\* C28: when several requests concurrently geocode the same (name, context)
\* on the shared cache, the geocoder being deterministic per key, then under
\* every interleaving each request calls the geocoder at most once for the
\* key, all requests return the same result, the cache ends with one entry
\* for the key, the same whichever writer was last, and an entry once written
\* is never removed or changed.
C28_ConcurrentLookupsConverge ==
    /\ [](CalledOnce /\ SameResult /\ EntryCached)
    /\ [][EntriesKept]_vars

\* the part of C28 about entries once written
C28_EntriesKept == [][EntriesKept]_vars

\* C30: the geocode cache is process-wide.  When a request has been answered
\* with a location found by the geocoder for its search query, a later
\* request for the same name and context, through the same GeoExtractor or
\* through another one of the process, is answered from the cache and sends
\* nothing to the geocoder.
C30_CacheIsProcessWide ==
    \A t, u \in Threads :
        (/\ t \in shared.threads[u].after
         /\ shared.threads[t].name = shared.threads[u].name
         /\ shared.threads[t].context = shared.threads[u].context
         /\ shared.threads[t].result.found
         /\ shared.threads[t].query
               = QueryOf[shared.threads[t].name, shared.threads[t].context]
         /\ shared.threads[u].pc = "done")
        => /\ shared.threads[u].hit
           /\ shared.threads[u].ext = <<>>

\* C30 for two requests through the same GeoExtractor
C30_SameInstance ==
    \A t, u \in Threads :
        (/\ t \in shared.threads[u].after
         /\ SameRequest(t, u)
         /\ shared.threads[t].result.found
         /\ shared.threads[t].query
               = QueryOf[shared.threads[t].name, shared.threads[t].context]
         /\ shared.threads[u].pc = "done")
        => /\ shared.threads[u].hit
           /\ shared.threads[u].ext = <<>>

=============================================================================
